---- MODULE Spec2Model ----
(***************************************************************************)
(* Contracts_DocSplit: detection of the sections of scanned contracts by   *)
(* page range, the consolidated diagnosis and the extraction pass.         *)
(*                                                                         *)
(* Page indices are 0-based inside the detector, 1-based in the JSON.      *)
(* An optional value (Python None / int) is a sequence of length 0 or 1.   *)
(***************************************************************************)
EXTENDS Integers, Sequences, FiniteSets, TLC

None == <<>>
Some(x) == <<x>>
EsNone(o) == o = <<>>
Val(o) == o[1]

Min(S) == CHOOSE x \in S : \A y \in S : x <= y
Max(S) == CHOOSE x \in S : \A y \in S : x >= y

(***************************************************************************)
(* Page text.  A page is the set of phrases (fragments) printed on it,     *)
(* surrounded by filler that matches no pattern, together with the         *)
(* measures the detector takes of the text: len = len(texto.strip()),      *)
(* firma = the signature regex matches, resto = length left after the      *)
(* signature and the capitalised names are removed, fecha = the date text  *)
(* a date pattern captures on the page.                                    *)
(***************************************************************************)
Frags ==
    {"CONTRATO DE TRABAJO", "Formulario 1604", "CONSTANCIA DE ALTA", "T-REGISTRO",
     "convenio para evitar doble imposición", "Guía de tipos de peligros y riesgos asociados",
     "GUÍA DE TIPOS DE PELIGROS Y RIESGOS ASOCIADOS", "PELIGROS", "RIESGOS",
     "EVENTO O EXPOSICIÓN PELIGROSA", "DAÑO O DETERIORO DE LA SALUD", "Peligros Mecánicos",
     "Page 2 of 5", "CONSTANCIA DE RECEPCIÓN DE LA POLÍTICA DE COMPORTAMIENTO",
     "Política de gestión de viajes y reembolso", "he recibido", "CONSTANCIA DE ENTREGA",
     "CÓDIGO DE CONDUCTA", "firmo la presente", "dejo constancia que he recibido lo siguiente",
     "Reglamento Interno de Seguridad y Salud en el Trabajo", "Reglamento Interno de Trabajo",
     "RISST", "RIT", "Conste por el presente documento que yo", "CERTIFICACIÓN Y COMPROMISO",
     "Reglamento Interno de Seguridad y Salud Ocupacional", "Ha recibido un ejemplar del",
     "CONSTANCIA", "MCP", "INFORME DE AUDITORÍA FINAL", "REGLAMENTO"}

\* CI[f]: the patterns of the source that occur in fragment f, letter case ignored
CI ==
    "CONTRATO DE TRABAJO" :>
        {"CONTRATO DE TRABAJO"} @@
    "Formulario 1604" :>
        {"formulario 1604", "Formulario 1604", "FORMULARIO"} @@
    "CONSTANCIA DE ALTA" :>
        {"constancia de alta", "constancia", "CONSTANCIA"} @@
    "T-REGISTRO" :>
        {"T-REGISTRO"} @@
    "convenio para evitar doble imposición" :>
        {"convenio para evitar doble imposición"} @@
    "Guía de tipos de peligros y riesgos asociados" :>
        {"Guía de tipos de peligros y riesgos asociados", "PELIGROS", "RIESGOS", "Peligros",
         "Riesgos", "GUÍA DE TIPOS DE PELIGROS", "GUÍA"} @@
    "GUÍA DE TIPOS DE PELIGROS Y RIESGOS ASOCIADOS" :>
        {"Guía de tipos de peligros y riesgos asociados", "PELIGROS", "RIESGOS", "Peligros",
         "Riesgos", "GUÍA DE TIPOS DE PELIGROS", "GUÍA"} @@
    "PELIGROS" :>
        {"PELIGROS", "Peligros"} @@
    "RIESGOS" :>
        {"RIESGOS", "Riesgos"} @@
    "EVENTO O EXPOSICIÓN PELIGROSA" :>
        {"PELIGROS", "EVENTO O EXPOSICIÓN PELIGROSA", "Peligros"} @@
    "DAÑO O DETERIORO DE LA SALUD" :>
        {"DAÑO O DETERIORO DE LA SALUD", "DAÑO O DETERIORO"} @@
    "Peligros Mecánicos" :>
        {"PELIGROS", "Peligros Mecánicos", "Peligros"} @@
    "Page 2 of 5" :>
        {"Page"} @@
    "CONSTANCIA DE RECEPCIÓN DE LA POLÍTICA DE COMPORTAMIENTO" :>
        {"CONSTANCIA DE RECEPCIÓN DE LA POLÍTICA DE COMPORTAMIENTO", "constancia",
         "CONSTANCIA", "POLÍTICA DE COMPORTAMIENTO", "CONSTANCIA DE RECEPCIÓN", "POLÍTICA"} @@
    "Política de gestión de viajes y reembolso" :>
        {"Política de gestión de viajes y reembolso", "POLÍTICA DE GESTIÓN", "POLÍTICA"} @@
    "he recibido" :>
        {"he recibido"} @@
    "CONSTANCIA DE ENTREGA" :>
        {"CONSTANCIA DE ENTREGA", "constancia", "CONSTANCIA"} @@
    "CÓDIGO DE CONDUCTA" :>
        {"CÓDIGO DE CONDUCTA", "CÓDIGO"} @@
    "firmo la presente" :>
        {"firmo", "firmo la presente"} @@
    "dejo constancia que he recibido lo siguiente" :>
        {"constancia", "he recibido", "dejo constancia que he recibido", "CONSTANCIA",
         "dejo constancia que he recibido lo siguiente"} @@
    "Reglamento Interno de Seguridad y Salud en el Trabajo" :>
        {"Reglamento Interno de Seguridad",
         "Reglamento Interno De Seguridad Y Salud En El Trabajo", "REGLAMENTO INTERNO",
         "reglamento interno de seguridad y salud en el trabajo", "REGLAMENTO"} @@
    "Reglamento Interno de Trabajo" :>
        {"reglamento interno de trabajo", "REGLAMENTO INTERNO", "REGLAMENTO"} @@
    "RISST" :>
        {"RISST", "risst"} @@
    "RIT" :>
        {"rit"} @@
    "Conste por el presente documento que yo" :>
        {"conste por el presente documento que yo"} @@
    "CERTIFICACIÓN Y COMPROMISO" :>
        {"CERTIFICACIÓN Y COMPROMISO"} @@
    "Reglamento Interno de Seguridad y Salud Ocupacional" :>
        {"Reglamento Interno de Seguridad",
         "Reglamento Interno de Seguridad y Salud Ocupacional", "REGLAMENTO INTERNO",
         "REGLAMENTO"} @@
    "Ha recibido un ejemplar del" :>
        {"Ha recibido un ejemplar del"} @@
    "CONSTANCIA" :>
        {"constancia", "CONSTANCIA"} @@
    "MCP" :>
        {"MCP"} @@
    "INFORME DE AUDITORÍA FINAL" :>
        {"INFORME DE AUDITORÍA FINAL", "Auditoría Final"} @@
    "REGLAMENTO" :>
        {"REGLAMENTO"}

\* CS[f]: the hazard-guide markers that occur in fragment f with their exact case
CS ==
    "CONTRATO DE TRABAJO" :>
        {} @@
    "Formulario 1604" :>
        {} @@
    "CONSTANCIA DE ALTA" :>
        {} @@
    "T-REGISTRO" :>
        {} @@
    "convenio para evitar doble imposición" :>
        {} @@
    "Guía de tipos de peligros y riesgos asociados" :>
        {} @@
    "GUÍA DE TIPOS DE PELIGROS Y RIESGOS ASOCIADOS" :>
        {"PELIGROS", "RIESGOS"} @@
    "PELIGROS" :>
        {"PELIGROS"} @@
    "RIESGOS" :>
        {"RIESGOS"} @@
    "EVENTO O EXPOSICIÓN PELIGROSA" :>
        {"PELIGROS", "EVENTO O EXPOSICIÓN PELIGROSA"} @@
    "DAÑO O DETERIORO DE LA SALUD" :>
        {"DAÑO O DETERIORO DE LA SALUD", "DAÑO O DETERIORO"} @@
    "Peligros Mecánicos" :>
        {"Peligros Mecánicos", "Peligros"} @@
    "Page 2 of 5" :>
        {"Page"} @@
    "CONSTANCIA DE RECEPCIÓN DE LA POLÍTICA DE COMPORTAMIENTO" :>
        {} @@
    "Política de gestión de viajes y reembolso" :>
        {} @@
    "he recibido" :>
        {} @@
    "CONSTANCIA DE ENTREGA" :>
        {} @@
    "CÓDIGO DE CONDUCTA" :>
        {} @@
    "firmo la presente" :>
        {} @@
    "dejo constancia que he recibido lo siguiente" :>
        {} @@
    "Reglamento Interno de Seguridad y Salud en el Trabajo" :>
        {} @@
    "Reglamento Interno de Trabajo" :>
        {} @@
    "RISST" :>
        {} @@
    "RIT" :>
        {} @@
    "Conste por el presente documento que yo" :>
        {} @@
    "CERTIFICACIÓN Y COMPROMISO" :>
        {} @@
    "Reglamento Interno de Seguridad y Salud Ocupacional" :>
        {} @@
    "Ha recibido un ejemplar del" :>
        {} @@
    "CONSTANCIA" :>
        {} @@
    "MCP" :>
        {} @@
    "INFORME DE AUDITORÍA FINAL" :>
        {} @@
    "REGLAMENTO" :>
        {}

\* patron.lower() in texto.lower(), patron in texto.upper(), re.search(patron, texto, re.IGNORECASE)
Contiene(pag, patron) == \E f \in pag.frags : patron \in CI[f]

\* patron in texto
ContieneExacto(pag, patron) == \E f \in pag.frags : patron \in CS[f]

(***************************************************************************)
(* Pattern library of the initial-contract detector.                       *)
(***************************************************************************)
PATRONES_contrato ==
    {"CONTRATO DE TRABAJO"}

PATRONES_alta_sunat_inicio_primario ==
    {"Formulario 1604", "Comprobante de Información Registrada",
     "se realizó satisfactoriamente la modificacion del registro del trabajador",
     "CONSTANCIA DE MODIFICACIÓN O ACTUALIZACIÓN DE DATOS"}

PATRONES_alta_sunat_inicio_secundario ==
    {"T-Registro: Registro de Prestadores", "T-REGISTRO", "T - Registro",
     "T-REGISTRO: REGISTRO DE PRESTADORES"}

PATRONES_alta_sunat_fin ==
    {"¿Aplica convenio para evitar doble imposición?",
     "Aplica convenio para evitar doble imposición", "convenio para evitar doble imposición"}

PATRONES_guia_peligros_titulo ==
    {"Guía de tipos de peligros y riesgos asociados", "GuÃ­a de tipos de peligros"}

PATRONES_guia_peligros_validacion ==
    {"PELIGROS", "RIESGOS", "EVENTO O EXPOSICIÓN PELIGROSA", "DAÑO O DETERIORO DE LA SALUD",
     "Peligros Mecánicos", "Peligros Eléctricos", "Peligros Químicos"}

PATRONES_guia_peligros_continuacion ==
    {"PELIGROS", "RIESGOS", "DAÑO O DETERIORO", "Page", "Peligros", "Riesgos"}

PATRONES_politica_comportamiento ==
    {"CONSTANCIA DE RECEPCIÓN DE LA POLÍTICA DE COMPORTAMIENTO",
     "CONSTANCIA DE RECEPCION DE LA POLITICA DE COMPORTAMIENTO",
     "El que suscribe el presente documento, trabajador de METSO",
     "ha recibido un ejemplar de la Política de comportamiento"}

PATRONES_politica_reembolso_titulo ==
    {"Política de gestión de viajes y reembolso", "PolÃ­tica de gestiÃ³n de viajes",
     "política de reembolso"}

PATRONES_politica_reembolso_constancia ==
    {"constancia", "he recibido", "firmo", "firma"}

PATRONES_codigo_conducta_constancia ==
    {"CONSTANCIA DE ENTREGA", "CÓDIGO DE CONDUCTA"}

PATRONES_codigo_conducta_validacion ==
    {"dejo constancia que he recibido", "firmo la presente",
     "certifico que tengo pleno conocimiento"}

PATRONES_rit_2025 ==
    {"CONSTANCIA DE RECEPCIÓN DEL REGLAMENTO INTERNO DE TRABAJO",
     "CONSTANCIA DE RECEPCION DEL REGLAMENTO INTERNO DE TRABAJO",
     "conste por el presente documento que yo", "reglamento interno de trabajo"}

PATRONES_risst_2025 ==
    {"Reglamento Interno de Seguridad",
     "Reglamento Interno De Seguridad Y Salud En El Trabajo", "CERTIFICACIÓN Y COMPROMISO",
     "Certificado de Recepción y Compromiso", "RISST", "RISTT",
     "habiendo recibido una copia del presente",
     "declaro haber tomado pleno conocimiento del contenido"}

PATRONES_risst_chinalco ==
    {"CONSTANCIA", "Reglamento Interno de Seguridad y Salud Ocupacional",
     "Ha recibido un ejemplar del", "además se compromete a cumplir", "MCP"}

PATRONES_auditoria ==
    {"INFORME DE AUDITORÍA FINAL", "INFORME DE AUDITORIA FINAL", "Auditoría Final",
     "Final Audit Report"}

patrones_secciones ==
    {"GUÍA DE TIPOS DE PELIGROS", "GUIA DE TIPOS DE PELIGROS", "POLÍTICA DE GESTIÓN",
     "POLITICA DE GESTION", "POLÍTICA DE COMPORTAMIENTO", "POLITICA DE COMPORTAMIENTO",
     "POLICY", "CONSTANCIA DE RECEPCIÓN", "CONSTANCIA DE RECEPCION", "CONSTANCIA DE ENTREGA",
     "CÓDIGO DE CONDUCTA", "CODIGO DE CONDUCTA", "REGLAMENTO INTERNO",
     "CERTIFICACIÓN Y COMPROMISO"}

patrones_validacion ==
    {"reglamento interno de seguridad y salud en el trabajo", "risst",
     "reglamento interno de trabajo", "rit",
     "procedimiento de investigación y sanción del hostigamiento sexual",
     "procedimiento de investigacion y sancion del hostigamiento sexual",
     "dejo constancia que he recibido lo siguiente"}

patrones_excluidos ==
    {"CONSTANCIA", "POLÍTICA", "POLITICA", "REGLAMENTO", "CÓDIGO", "CODIGO", "PELIGROS",
     "FORMULARIO", "GUÍA", "GUIA", "Document Title", "Position of document", "Policy"}


\* patron in texto.upper(): a pattern written with lower-case letters never occurs in upper-cased text
ContieneMayus(pag, patron) ==
    /\ patron \notin {"Document Title", "Position of document", "Policy"}
    /\ Contiene(pag, patron)

\* sum(1 for patron in patrones if patron in texto)
ContarExacto(pag, patrones) == Cardinality({p \in patrones : ContieneExacto(pag, p)})

\* sum(1 for patron in patrones if re.search(patron, texto, re.IGNORECASE))
contar_coincidencias(pag, patrones) == Cardinality({p \in patrones : Contiene(pag, p)})

\* any(patron.lower() in texto.lower() for patron in patrones)
Alguno(pag, patrones) == \E p \in patrones : Contiene(pag, p)

(***************************************************************************)
(* The detector object: texto_paginas (page i of the source is             *)
(* texto_paginas[i+1]) and total_paginas.  Every detector below takes      *)
(* them as T and n and returns a pair of optional 0-based indices.         *)
(***************************************************************************)
Pag(T, i) == T[i + 1]
Par(inicio, fin) == [inicio |-> inicio, fin |-> fin]
NoDetectado == Par(None, None)
Unica(i) == Par(Some(i), Some(i))

\* first index of a set of page indices, as an optional
Primero(S) == IF S = {} THEN None ELSE Some(Min(S))

\* as detectar_contrato, starting at the first page with the contract title and
\* finding nothing without one
detectar_contrato_desde_titulo(T) ==
    LET titulo == Primero({i \in 0..(Len(T) - 1) : Alguno(Pag(T, i), PATRONES_contrato)})
        hit == Primero({i \in 0..(Len(T) - 1) :
                   Contiene(Pag(T, i), "constancia de alta") \/ Contiene(Pag(T, i), "formulario 1604")})
    IN  IF EsNone(titulo) THEN NoDetectado
        ELSE IF EsNone(hit) THEN Par(titulo, titulo)
        ELSE Par(titulo, Some(Max({Val(hit) - 1, Val(titulo)})))

\* as detectar_contrato, running to the last page when no marker ends the contract
detectar_contrato_hasta_final(T) ==
    LET hit == Primero({i \in 0..(Len(T) - 1) :
                   Contiene(Pag(T, i), "constancia de alta") \/ Contiene(Pag(T, i), "formulario 1604")})
        inicio == 0
    IN  IF EsNone(hit) THEN Par(Some(inicio), Some(Len(T) - 1))
        ELSE Par(Some(inicio), Some(IF Val(hit) > 0 THEN Val(hit) - 1 ELSE inicio))

\* as detectar_contrato, without the "if i > 0" guard on the end page
detectar_contrato_sin_guarda(T) ==
    LET hit == Primero({i \in 0..(Len(T) - 1) :
                   Contiene(Pag(T, i), "constancia de alta") \/ Contiene(Pag(T, i), "formulario 1604")})
    IN  IF EsNone(hit) THEN Par(Some(0), Some(0))
        ELSE Par(Some(0), Some(Val(hit) - 1))

detectar_contrato(T) ==
    LET hit == Primero({i \in 0..(Len(T) - 1) :
                   Contiene(Pag(T, i), "constancia de alta") \/ Contiene(Pag(T, i), "formulario 1604")})
        inicio == 0
    IN  IF EsNone(hit) THEN Par(Some(inicio), Some(inicio))
        ELSE Par(Some(inicio), Some(IF Val(hit) > 0 THEN Val(hit) - 1 ELSE inicio))

\* as detectar_alta_sunat, with the markers of both tiers searched together
detectar_alta_sunat_un_nivel(T, n) ==
    LET inicio == Primero({i \in 0..(Len(T) - 1) :
                      \/ Alguno(Pag(T, i), PATRONES_alta_sunat_inicio_primario)
                      \/ Alguno(Pag(T, i), PATRONES_alta_sunat_inicio_secundario)})
    IN  IF EsNone(inicio) THEN NoDetectado
        ELSE LET fin == Primero({i \in (Val(inicio))..(n - 1) : Alguno(Pag(T, i), PATRONES_alta_sunat_fin)})
             IN  Par(inicio, IF EsNone(fin) THEN inicio ELSE fin)

\* as detectar_alta_sunat, without the search for the finish marker
detectar_alta_sunat_sin_fin(T, n) ==
    LET nivel1 == Primero({i \in 0..(Len(T) - 1) : Alguno(Pag(T, i), PATRONES_alta_sunat_inicio_primario)})
        nivel2 == Primero({i \in 0..(Len(T) - 1) : Alguno(Pag(T, i), PATRONES_alta_sunat_inicio_secundario)})
        inicio == IF EsNone(nivel1) THEN nivel2 ELSE nivel1
    IN  IF EsNone(inicio) THEN NoDetectado ELSE Par(inicio, inicio)

detectar_alta_sunat(T, n) ==
    LET nivel1 == Primero({i \in 0..(Len(T) - 1) : Alguno(Pag(T, i), PATRONES_alta_sunat_inicio_primario)})
        nivel2 == Primero({i \in 0..(Len(T) - 1) : Alguno(Pag(T, i), PATRONES_alta_sunat_inicio_secundario)})
        inicio == IF EsNone(nivel1) THEN nivel2 ELSE nivel1
    IN  IF EsNone(inicio) THEN NoDetectado
        ELSE LET fin == Primero({i \in (Val(inicio))..(n - 1) : Alguno(Pag(T, i), PATRONES_alta_sunat_fin)})
             IN  Par(inicio, IF EsNone(fin) THEN inicio ELSE fin)

\* as EsInicioGuia, with the threshold one too low
EsInicioGuia_umbral1(pag) ==
    /\ Alguno(pag, PATRONES_guia_peligros_titulo)
    /\ ContarExacto(pag, PATRONES_guia_peligros_validacion) >= 1

\* the page carries the title and at least 2 validation markers
EsInicioGuia(pag) ==
    /\ Alguno(pag, PATRONES_guia_peligros_titulo)
    /\ ContarExacto(pag, PATRONES_guia_peligros_validacion) >= 2

\* the page carries at least 3 continuation markers
EsContinuacionGuia(pag) == ContarExacto(pag, PATRONES_guia_peligros_continuacion) >= 3

\* as detectar_guia_peligros, ending at the last page after the start that carries
\* three continuation markers, whatever lies in between
detectar_guia_peligros_ultima(T, n, fin_sunat) ==
    LET inicio_busqueda == IF EsNone(fin_sunat) THEN 0 ELSE Val(fin_sunat) + 1
        inicio == Primero({i \in inicio_busqueda..(n - 1) : EsInicioGuia(Pag(T, i))})
    IN  IF EsNone(inicio) THEN NoDetectado
        ELSE LET siguen == {i \in (Val(inicio) + 1)..(n - 1) : EsContinuacionGuia(Pag(T, i))}
             IN  Par(inicio, Some(IF siguen = {} THEN Val(inicio) ELSE Max(siguen)))

\* as detectar_guia_peligros, with the extension cut after 15 pages
detectar_guia_peligros_con_ventana(T, n, fin_sunat) ==
    LET inicio_busqueda == IF EsNone(fin_sunat) THEN 0 ELSE Val(fin_sunat) + 1
        inicio == Primero({i \in inicio_busqueda..(n - 1) : EsInicioGuia(Pag(T, i))})
    IN  IF EsNone(inicio) THEN NoDetectado
        ELSE LET corte == Primero({i \in (Val(inicio) + 1)..(n - 1) : ~EsContinuacionGuia(Pag(T, i))})
                 fin == IF EsNone(corte) THEN n - 1 ELSE Val(corte) - 1
             IN  Par(inicio, Some(Min({fin, Val(inicio) + 15})))

\* as detectar_guia_peligros, searching from the first page of the document
detectar_guia_peligros_desde_cero(T, n, fin_sunat) ==
    LET inicio == Primero({i \in 0..(n - 1) : EsInicioGuia(Pag(T, i))})
    IN  IF EsNone(inicio) THEN NoDetectado
        ELSE LET corte == Primero({i \in (Val(inicio) + 1)..(n - 1) : ~EsContinuacionGuia(Pag(T, i))})
             IN  Par(inicio, Some(IF EsNone(corte) THEN n - 1 ELSE Val(corte) - 1))

\* _detectar_guia_peligros: the first page after the tax registration with the title and
\* two validation markers, extended while the pages keep three continuation markers
detectar_guia_peligros(T, n, fin_sunat) ==
    LET inicio_busqueda == IF EsNone(fin_sunat) THEN 0 ELSE Val(fin_sunat) + 1
        inicio == Primero({i \in inicio_busqueda..(n - 1) : EsInicioGuia(Pag(T, i))})
    IN  IF EsNone(inicio) THEN NoDetectado
        ELSE LET corte == Primero({i \in (Val(inicio) + 1)..(n - 1) : ~EsContinuacionGuia(Pag(T, i))})
             IN  Par(inicio, Some(IF EsNone(corte) THEN n - 1 ELSE Val(corte) - 1))

encontrar_siguiente_seccion(T, n, desde_pagina) ==
    Primero({i \in desde_pagina..(n - 1) :
                /\ \E p \in patrones_secciones : ContieneMayus(Pag(T, i), p)
                /\ Pag(T, i).len > 200})

es_pagina_vacia_o_firma(T, n, indice_pagina) ==
    IF indice_pagina >= n THEN FALSE
    ELSE LET pag == Pag(T, indice_pagina)
         IN  IF pag.len < 150 THEN TRUE
             ELSE IF pag.firma /\ pag.resto < 50 THEN TRUE
             ELSE IF \E p \in patrones_excluidos : ContieneMayus(pag, p) THEN FALSE
             ELSE FALSE

\* as detectar_alta_derechohabiente, without the fallback to the page before the
\* hazard guide
detectar_alta_derechohabiente_sin_respaldo(T, n, fin_alta_sunat, inicio_guia_peligros) ==
    LET siguiente_seccion ==
            IF EsNone(fin_alta_sunat) THEN None
            ELSE encontrar_siguiente_seccion(T, n, Val(fin_alta_sunat) + 1)
        inicio_candidato == Val(fin_alta_sunat) + 1
        fin_candidato == Val(siguiente_seccion) - 1
        prioridad1 ==
            /\ ~EsNone(fin_alta_sunat)
            /\ ~EsNone(siguiente_seccion)
            /\ inicio_candidato <= fin_candidato
            /\ inicio_candidato < n
            /\ \A p \in inicio_candidato..fin_candidato : es_pagina_vacia_o_firma(T, n, p)
        prioridad3 ==
            /\ ~EsNone(fin_alta_sunat)
            /\ Val(fin_alta_sunat) < n - 1
            /\ es_pagina_vacia_o_firma(T, n, Val(fin_alta_sunat) + 1)
    IN  IF prioridad1 THEN Par(Some(inicio_candidato), Some(fin_candidato))
        ELSE IF prioridad3 THEN Unica(Val(fin_alta_sunat) + 1)
        ELSE NoDetectado

detectar_alta_derechohabiente(T, n, fin_alta_sunat, inicio_guia_peligros) ==
    LET siguiente_seccion ==
            IF EsNone(fin_alta_sunat) THEN None
            ELSE encontrar_siguiente_seccion(T, n, Val(fin_alta_sunat) + 1)
        inicio_candidato == Val(fin_alta_sunat) + 1
        fin_candidato == Val(siguiente_seccion) - 1
        prioridad1 ==
            /\ ~EsNone(fin_alta_sunat)
            /\ ~EsNone(siguiente_seccion)
            /\ inicio_candidato <= fin_candidato
            /\ inicio_candidato < n
            /\ \A p \in inicio_candidato..fin_candidato : es_pagina_vacia_o_firma(T, n, p)
        prioridad2 ==
            /\ ~EsNone(inicio_guia_peligros)
            /\ Val(inicio_guia_peligros) > 0
            /\ es_pagina_vacia_o_firma(T, n, Val(inicio_guia_peligros) - 1)
        prioridad3 ==
            /\ ~EsNone(fin_alta_sunat)
            /\ Val(fin_alta_sunat) < n - 1
            /\ es_pagina_vacia_o_firma(T, n, Val(fin_alta_sunat) + 1)
    IN  IF prioridad1 THEN Par(Some(inicio_candidato), Some(fin_candidato))
        ELSE IF prioridad2 THEN Unica(Val(inicio_guia_peligros) - 1)
        ELSE IF prioridad3 THEN Unica(Val(fin_alta_sunat) + 1)
        ELSE NoDetectado

detectar_politica_comportamiento(T) ==
    LET hit == Primero({i \in 0..(Len(T) - 1) : Alguno(Pag(T, i), PATRONES_politica_comportamiento)})
    IN  IF EsNone(hit) THEN NoDetectado ELSE Unica(Val(hit))

\* as detectar_politica_reembolso, always returning the first page with the title
detectar_politica_reembolso_primera(T) ==
    LET paginas_con_politica ==
            {i \in 0..(Len(T) - 1) : Alguno(Pag(T, i), PATRONES_politica_reembolso_titulo)}
    IN  IF paginas_con_politica = {} THEN NoDetectado
        ELSE Unica(Min(paginas_con_politica))

\* _detectar_politica_reembolso: the last title page that carries an acknowledgment
\* phrase, else the first title page
detectar_politica_reembolso(T) ==
    LET paginas_con_politica ==
            {i \in 0..(Len(T) - 1) : Alguno(Pag(T, i), PATRONES_politica_reembolso_titulo)}
        con_constancia ==
            {i \in paginas_con_politica : Alguno(Pag(T, i), PATRONES_politica_reembolso_constancia)}
    IN  IF paginas_con_politica = {} THEN NoDetectado
        ELSE IF con_constancia # {} THEN Unica(Max(con_constancia))
        ELSE Unica(Min(paginas_con_politica))

detectar_codigo_conducta(T) ==
    LET hit == Primero({i \in 0..(Len(T) - 1) :
                   /\ ContieneMayus(Pag(T, i), "CONSTANCIA DE ENTREGA")
                   /\ (ContieneMayus(Pag(T, i), "CÓDIGO DE CONDUCTA") \/ ContieneMayus(Pag(T, i), "CODIGO DE CONDUCTA"))
                   /\ Alguno(Pag(T, i), PATRONES_codigo_conducta_validacion)})
    IN  IF EsNone(hit) THEN NoDetectado ELSE Unica(Val(hit))

\* the candidate page exists and carries at least 3 of patrones_validacion
CandidatoConstanciaValido(T, n, ancla) ==
    /\ ~EsNone(ancla)
    /\ Val(ancla) + 1 < n
    /\ contar_coincidencias(Pag(T, Val(ancla) + 1), patrones_validacion) >= 3

\* as detectar_constancia_rit_risst, trying the page after the conduct code first
detectar_constancia_secundaria_primero(T, n, inicio_politica_reembolso, inicio_codigo_conducta) ==
    IF CandidatoConstanciaValido(T, n, inicio_codigo_conducta)
    THEN Unica(Val(inicio_codigo_conducta) + 1)
    ELSE IF CandidatoConstanciaValido(T, n, inicio_politica_reembolso)
    THEN Unica(Val(inicio_politica_reembolso) + 1)
    ELSE NoDetectado

detectar_constancia_rit_risst(T, n, inicio_politica_reembolso, inicio_codigo_conducta) ==
    IF CandidatoConstanciaValido(T, n, inicio_politica_reembolso)
    THEN Unica(Val(inicio_politica_reembolso) + 1)
    ELSE IF CandidatoConstanciaValido(T, n, inicio_codigo_conducta)
    THEN Unica(Val(inicio_codigo_conducta) + 1)
    ELSE NoDetectado

detectar_rit_2025(T) ==
    LET hit == Primero({i \in 0..(Len(T) - 1) :
                   /\ Contiene(Pag(T, i), "conste por el presente documento que yo")
                   /\ Contiene(Pag(T, i), "reglamento interno de trabajo")})
    IN  IF EsNone(hit) THEN NoDetectado ELSE Unica(Val(hit))

\* as detectar_risst_2025, returning the first page that reaches the threshold
detectar_risst_2025_primera(T) ==
    LET cuenta(i) == contar_coincidencias(Pag(T, i), PATRONES_risst_2025)
        paginas_risst == {i \in 0..(Len(T) - 1) : cuenta(i) >= 2}
    IN  IF paginas_risst = {} THEN NoDetectado
        ELSE Unica(Min(paginas_risst))

\* candidates keep page order; sort(key=count, reverse=True) is stable, so the
\* first of the sorted list is the earliest page among those with the highest count
detectar_risst_2025(T) ==
    LET cuenta(i) == contar_coincidencias(Pag(T, i), PATRONES_risst_2025)
        paginas_risst == {i \in 0..(Len(T) - 1) : cuenta(i) >= 2}
        maximo == Max({cuenta(i) : i \in paginas_risst})
    IN  IF paginas_risst = {} THEN NoDetectado
        ELSE Unica(Min({i \in paginas_risst : cuenta(i) = maximo}))

detectar_auditoria(T) ==
    LET paginas_auditoria == {i \in 0..(Len(T) - 1) : Alguno(Pag(T, i), PATRONES_auditoria)}
    IN  IF paginas_auditoria = {} THEN NoDetectado
        ELSE Par(Some(Min(paginas_auditoria)), Some(Max(paginas_auditoria)))

detectar_risst_chinalco(T, inicio_auditoria) ==
    IF EsNone(inicio_auditoria) \/ Val(inicio_auditoria) <= 0 THEN NoDetectado
    ELSE LET pagina_candidata == Val(inicio_auditoria) - 1
         IN  IF contar_coincidencias(Pag(T, pagina_candidata), PATRONES_risst_chinalco) >= 2
             THEN Unica(pagina_candidata)
             ELSE NoDetectado


(***************************************************************************)
(* Contract date.  A date text is what the pattern (\d{2}/\d{2}/\d{4})     *)
(* captures, split at "/": three digit strings, each a sequence of         *)
(* one-character strings.  pag.fecha is None or Some([tipo, texto]), tipo  *)
(* naming the most specific of the three patterns that the page matches.   *)
(***************************************************************************)
DigitVal ==
    "0" :> 0 @@ "1" :> 1 @@ "2" :> 2 @@ "3" :> 3 @@ "4" :> 4 @@
    "5" :> 5 @@ "6" :> 6 @@ "7" :> 7 @@ "8" :> 8 @@ "9" :> 9

\* int(s) of a digit string
RECURSIVE ToInt(_)
ToInt(s) == IF s = <<>> THEN 0 ELSE 10 * ToInt(SubSeq(s, 1, Len(s) - 1)) + DigitVal[s[Len(s)]]

EsBisiesto(anio) == (anio % 4 = 0 /\ anio % 100 # 0) \/ anio % 400 = 0

DiasDelMes(anio, mes) ==
    IF mes = 2 THEN (IF EsBisiesto(anio) THEN 29 ELSE 28)
    ELSE IF mes \in {4, 6, 9, 11} THEN 30 ELSE 31

\* datetime(anio, mes, dia) does not raise ValueError
FechaValida(anio, mes, dia) ==
    /\ anio >= 1 /\ anio <= 9999
    /\ mes >= 1 /\ mes <= 12
    /\ dia >= 1 /\ dia <= DiasDelMes(anio, mes)

\* as convertir_fecha_a_formato, without the datetime(...) that validates the date
convertir_fecha_sin_validar(fecha_str) == Some(fecha_str.mes \o <<".">> \o fecha_str.anio)

\* "DD/MM/YYYY" -> "MM.YYYY", None when the date is not a calendar date
convertir_fecha_a_formato(fecha_str) ==
    IF FechaValida(ToInt(fecha_str.anio), ToInt(fecha_str.mes), ToInt(fecha_str.dia))
    THEN Some(fecha_str.mes \o <<".">> \o fecha_str.anio)
    ELSE None

extraer_fecha_sunat(T, n, inicio_sunat, fin_sunat) ==
    IF EsNone(inicio_sunat) THEN None
    ELSE LET fin0 == IF EsNone(fin_sunat) THEN Val(inicio_sunat) ELSE Val(fin_sunat)
             fin == Min({fin0 + 1, Val(inicio_sunat) + 3})
             hasta == Min({fin, n})
             Con(tipo) == Primero({i \in Val(inicio_sunat)..(hasta - 1) :
                              ~EsNone(Pag(T, i).fecha) /\ Val(Pag(T, i).fecha).tipo = tipo})
             Texto(hit) == Val(Pag(T, Val(hit)).fecha).texto
         IN  IF ~EsNone(Con("principal")) THEN convertir_fecha_a_formato(Texto(Con("principal")))
             ELSE IF ~EsNone(Con("secundario")) THEN convertir_fecha_a_formato(Texto(Con("secundario")))
             ELSE IF ~EsNone(Con("terciario")) THEN convertir_fecha_a_formato(Texto(Con("terciario")))
             ELSE None

(***************************************************************************)
(* detectar_todas_secciones: the 12 sections in their dependency order,    *)
(* each formatted to a 1-based range or null.                              *)
(***************************************************************************)
Secciones ==
    {"Contrato de Trabajo", "Constancia de Alta", "Guia de Peligro",
     "Constancia de Alta DerechoHabiente",
     "Constancia de recepción de la Politica de Comportamiento",
     "Constancia de politica de reembolso de viajes", "Codigo de conducta",
     "Constancia de RIT,RISST,HOST.SEXUAL,P.SALARIAL", "RIT 2025", "RISST 2025",
     "Contrato Auditoria", "RISST CHINALCO 2025"}

format_rango(inicio, fin) ==
    IF EsNone(inicio) /\ EsNone(fin) THEN None
    ELSE Some([inicio |-> IF ~EsNone(inicio) THEN Some(Val(inicio) + 1) ELSE None,
               fin    |-> IF ~EsNone(fin) THEN Some(Val(fin) + 1) ELSE None])

Formato(par) == format_rango(par.inicio, par.fin)

detectar_todas_secciones(T, n) ==
    LET contrato == detectar_contrato(T)
        alta == detectar_alta_sunat(T, n)
        fecha_contrato == extraer_fecha_sunat(T, n, alta.inicio, alta.fin)
        guia == detectar_guia_peligros(T, n, alta.fin)
        dh == detectar_alta_derechohabiente(T, n, alta.fin, guia.inicio)
        pc == detectar_politica_comportamiento(T)
        pr == detectar_politica_reembolso(T)
        cc == detectar_codigo_conducta(T)
        constancia == detectar_constancia_rit_risst(T, n, pr.inicio, cc.inicio)
        rit == detectar_rit_2025(T)
        risst == detectar_risst_2025(T)
        auditoria == detectar_auditoria(T)
        chinalco == detectar_risst_chinalco(T, auditoria.inicio)
    IN  [secciones |->
            "Contrato de Trabajo" :> Formato(contrato) @@
            "Constancia de Alta" :> Formato(alta) @@
            "Guia de Peligro" :> Formato(guia) @@
            "Constancia de Alta DerechoHabiente" :> Formato(dh) @@
            "Constancia de recepción de la Politica de Comportamiento" :> Formato(pc) @@
            "Constancia de politica de reembolso de viajes" :> Formato(pr) @@
            "Codigo de conducta" :> Formato(cc) @@
            "Constancia de RIT,RISST,HOST.SEXUAL,P.SALARIAL" :> Formato(constancia) @@
            "RIT 2025" :> Formato(rit) @@
            "RISST 2025" :> Formato(risst) @@
            "Contrato Auditoria" :> Formato(auditoria) @@
            "RISST CHINALCO 2025" :> Formato(chinalco),
         fecha_contrato |-> fecha_contrato,
         fecha_origen |-> "sunat"]


(***************************************************************************)
(* Documents.  The pages a document can be made of: pages of a typical     *)
(* contract file, the five short pages of the reference scenario, and      *)
(* pages that sit exactly at or just under a validation threshold.         *)
(***************************************************************************)
PagContrato ==
    [frags |-> {"CONTRATO DE TRABAJO"},
     len |-> 300, firma |-> FALSE, resto |-> 300,
     fecha |-> None]

PagFormulario ==
    [frags |-> {"Formulario 1604"},
     len |-> 300, firma |-> FALSE, resto |-> 284,
     fecha |-> Some([tipo |-> "secundario",
                    texto |-> [dia |-> <<"1", "5">>, mes |-> <<"0", "3">>, anio |-> <<"2", "0", "2", "5">>]])]

PagTRegistro ==
    [frags |-> {"T-REGISTRO"},
     len |-> 300, firma |-> FALSE, resto |-> 300,
     fecha |-> None]

PagConvenio ==
    [frags |-> {"convenio para evitar doble imposición"},
     len |-> 300, firma |-> FALSE, resto |-> 300,
     fecha |-> None]

PagBlanco ==
    [frags |-> {},
     len |-> 40, firma |-> FALSE, resto |-> 40,
     fecha |-> None]

PagGuia ==
    [frags |-> {"Guía de tipos de peligros y riesgos asociados", "PELIGROS", "RIESGOS"},
     len |-> 300, firma |-> FALSE, resto |-> 298,
     fecha |-> None]

PagGuiaSigue ==
    [frags |-> {"PELIGROS", "RIESGOS", "Page 2 of 5"},
     len |-> 300, firma |-> FALSE, resto |-> 296,
     fecha |-> None]

PagComportamiento ==
    [frags |-> {"CONSTANCIA DE RECEPCIÓN DE LA POLÍTICA DE COMPORTAMIENTO"},
     len |-> 300, firma |-> FALSE, resto |-> 300,
     fecha |-> None]

PagReembolso ==
    [frags |-> {"Política de gestión de viajes y reembolso", "he recibido"},
     len |-> 300, firma |-> FALSE, resto |-> 297,
     fecha |-> None]

PagCodigo ==
    [frags |-> {"CONSTANCIA DE ENTREGA", "CÓDIGO DE CONDUCTA", "firmo la presente"},
     len |-> 300, firma |-> FALSE, resto |-> 300,
     fecha |-> None]

PagConstancia ==
    [frags |-> {"dejo constancia que he recibido lo siguiente", "RISST", "Reglamento Interno de Trabajo"},
     len |-> 300, firma |-> FALSE, resto |-> 275,
     fecha |-> None]

PagRit ==
    [frags |-> {"Conste por el presente documento que yo", "Reglamento Interno de Trabajo"},
     len |-> 300, firma |-> FALSE, resto |-> 268,
     fecha |-> None]

PagRisst ==
    [frags |-> {"Reglamento Interno de Seguridad y Salud en el Trabajo", "CERTIFICACIÓN Y COMPROMISO"},
     len |-> 300, firma |-> FALSE, resto |-> 260,
     fecha |-> None]

PagChinalco ==
    [frags |-> {"CONSTANCIA", "MCP"},
     len |-> 300, firma |-> FALSE, resto |-> 300,
     fecha |-> None]

PagAuditoria ==
    [frags |-> {"INFORME DE AUDITORÍA FINAL"},
     len |-> 300, firma |-> FALSE, resto |-> 300,
     fecha |-> None]

PagTexto ==
    [frags |-> {},
     len |-> 300, firma |-> FALSE, resto |-> 300,
     fecha |-> None]

EscContrato ==
    [frags |-> {"CONTRATO DE TRABAJO"},
     len |-> 19, firma |-> FALSE, resto |-> 19,
     fecha |-> None]

EscFormulario ==
    [frags |-> {"Formulario 1604"},
     len |-> 15, firma |-> FALSE, resto |-> 4,
     fecha |-> None]

EscConvenio ==
    [frags |-> {"convenio para evitar doble imposición"},
     len |-> 37, firma |-> FALSE, resto |-> 37,
     fecha |-> None]

EscGuia ==
    [frags |-> {"Guía de tipos de peligros y riesgos asociados", "PELIGROS", "RIESGOS", "EVENTO O EXPOSICIÓN PELIGROSA"},
     len |-> 92, firma |-> FALSE, resto |-> 90,
     fecha |-> None]

EscAuditoria ==
    [frags |-> {"INFORME DE AUDITORÍA FINAL"},
     len |-> 26, firma |-> FALSE, resto |-> 26,
     fecha |-> None]

GuiaCon1 ==
    [frags |-> {"Guía de tipos de peligros y riesgos asociados", "PELIGROS"},
     len |-> 300, firma |-> FALSE, resto |-> 298,
     fecha |-> None]

ConstanciaCon2 ==
    [frags |-> {"RISST", "RIT"},
     len |-> 300, firma |-> FALSE, resto |-> 300,
     fecha |-> None]

ConstanciaCon3 ==
    [frags |-> {"RISST", "RIT", "dejo constancia que he recibido lo siguiente"},
     len |-> 300, firma |-> FALSE, resto |-> 300,
     fecha |-> None]

RisstCon1 ==
    [frags |-> {"RISST"},
     len |-> 300, firma |-> FALSE, resto |-> 300,
     fecha |-> None]

RisstCon2 ==
    [frags |-> {"RISST", "CERTIFICACIÓN Y COMPROMISO"},
     len |-> 300, firma |-> FALSE, resto |-> 300,
     fecha |-> None]

ChinalcoCon1 ==
    [frags |-> {"MCP"},
     len |-> 300, firma |-> FALSE, resto |-> 300,
     fecha |-> None]

PagFormularioInvalida ==
    [frags |-> {"Formulario 1604"},
     len |-> 300, firma |-> FALSE, resto |-> 284,
     fecha |-> Some([tipo |-> "secundario",
                    texto |-> [dia |-> <<"3", "1">>, mes |-> <<"0", "2">>, anio |-> <<"2", "0", "2", "5">>]])]

PagTRegistroFecha ==
    [frags |-> {"T-REGISTRO"},
     len |-> 300, firma |-> FALSE, resto |-> 276,
     fecha |-> Some([tipo |-> "principal",
                    texto |-> [dia |-> <<"0", "1">>, mes |-> <<"1", "2">>, anio |-> <<"2", "0", "2", "4">>]])]

PagPeriodosInvalido ==
    [frags |-> {},
     len |-> 300, firma |-> FALSE, resto |-> 291,
     fecha |-> Some([tipo |-> "terciario",
                    texto |-> [dia |-> <<"2", "9">>, mes |-> <<"0", "2">>, anio |-> <<"2", "0", "2", "5">>]])]

PagConstanciaAlta ==
    [frags |-> {"CONSTANCIA DE ALTA"},
     len |-> 300, firma |-> FALSE, resto |-> 300,
     fecha |-> None]

PagReglamento ==
    [frags |-> {"REGLAMENTO"},
     len |-> 300, firma |-> FALSE, resto |-> 300,
     fecha |-> None]

PagReglamentoCorta ==
    [frags |-> {"REGLAMENTO"},
     len |-> 40, firma |-> FALSE, resto |-> 40,
     fecha |-> None]

PagFirma ==
    [frags |-> {},
     len |-> 300, firma |-> TRUE, resto |-> 4,
     fecha |-> None]

PagFirmaReglamento ==
    [frags |-> {"REGLAMENTO"},
     len |-> 300, firma |-> TRUE, resto |-> 16,
     fecha |-> None]

PagFirmaTexto ==
    [frags |-> {},
     len |-> 300, firma |-> TRUE, resto |-> 256,
     fecha |-> None]

PagReembolsoSin ==
    [frags |-> {"Política de gestión de viajes y reembolso"},
     len |-> 300, firma |-> FALSE, resto |-> 297,
     fecha |-> None]

\* pages around the tax registration: its date, valid or not, and its markers
PaginasFecha ==
    {PagContrato, PagFormulario, PagFormularioInvalida, PagTRegistroFecha, PagPeriodosInvalido, PagConvenio, PagConstanciaAlta, PagTexto}

PaginasGenerales ==
    {PagContrato, PagFormulario, PagTRegistro, PagConvenio, PagBlanco, PagGuia, PagGuiaSigue, PagComportamiento, PagReembolso, PagCodigo, PagConstancia, PagRit, PagRisst, PagChinalco, PagAuditoria, PagTexto}

PaginasUmbral ==
    {PagFormulario, GuiaCon1, PagGuia, PagReembolso, PagCodigo, ConstanciaCon2, ConstanciaCon3, RisstCon1, RisstCon2, ChinalcoCon1, PagChinalco, PagAuditoria}


MaxPaginas == 3
MaxCorridas == 2
MaxPaginasGuia == 4
MaxContinuacion == 16
MaxPaginasHueco == 3
MaxPaginasAcuse == 4

\* all documents of 1..k pages over a set of pages (a PDF has at least one page)
SeqsHasta(S, k) == UNION {[1..j -> S] : j \in 1..k}

Escenario == <<EscContrato, EscFormulario, EscConvenio, EscGuia, EscAuditoria>>

\* the same five pages, each with 300 characters of text
EscenarioExtenso == <<PagContrato, PagFormulario, PagConvenio, PagGuia, PagAuditoria>>

\* pages between the tax registration and the hazard guide: short pages, signature
\* pages and pages of text, with and without a keyword of another section
PaginasHueco ==
    {EscConvenio, PagBlanco, PagTexto, PagGuia, EscGuia, PagComportamiento, PagReglamento, PagReglamentoCorta, PagFirma, PagFirmaReglamento, PagFirmaTexto}

\* a tax registration followed by up to MaxPaginasHueco of those pages
DocumentosHueco == {<<PagFormulario>> \o s : s \in SeqsHasta(PaginasHueco, MaxPaginasHueco)}

\* acknowledgment pages: the reimbursement policy with and without an acknowledgment
\* phrase, the conduct code, candidates of the combined acknowledgment with 3 and 2
\* validation phrases, and RISST pages with 2 and 3 matches
PaginasAcuse ==
    {PagReembolso, PagReembolsoSin, PagCodigo, ConstanciaCon3, ConstanciaCon2, RisstCon2, PagRisst}

\* pages of a hazard guide and a page that interrupts it
PaginasGuia == {PagGuia, PagGuiaSigue, PagTexto}

\* a hazard guide of 1 + k pages, alone or followed by other pages
GuiaDe(k) == [i \in 1..(k + 1) |-> IF i = 1 THEN PagGuia ELSE PagGuiaSigue]

DocumentosGuia ==
    SeqsHasta(PaginasGuia, MaxPaginasGuia)
        \cup {GuiaDe(k) : k \in 0..MaxContinuacion}
        \cup {GuiaDe(k) \o <<PagTexto, PagGuiaSigue>> : k \in 0..MaxContinuacion}

Documentos ==
    SeqsHasta(PaginasGenerales, MaxPaginas)
        \cup DocumentosGuia
        \cup DocumentosHueco
        \cup SeqsHasta(PaginasAcuse, MaxPaginasAcuse)
        \cup SeqsHasta(PaginasUmbral, MaxPaginas)
        \cup SeqsHasta(PaginasFecha, MaxPaginas)
        \cup {Escenario, EscenarioExtenso}

(***************************************************************************)
(* State.                                                                  *)
(***************************************************************************)
VARIABLES
    documento,       \* the pages of the PDF at ruta_pdf
    construido,      \* a SectionDetector has been constructed on it
    texto_paginas,   \* SectionDetector.texto_paginas
    total_paginas,   \* SectionDetector.total_paginas
    resultado,       \* what the last detectar_todas_secciones returned
    anteriores,      \* the results of all detections of this document so far
    corridas,        \* how many detections have run
    \* batch diagnosis (diagnosticar_contratos, diagnosticar_renovaciones)
    flujo,           \* "contratos" or "renovaciones"
    archivos_pdf,    \* the PDFs of carpeta_entrada, in the order of the loop
    idx,             \* how many of them the loop has gone through
    datos,           \* JSONGenerator.datos / JSONGenerator.datos_consolidados
    archivos_procesados, \* counter of diagnosticar_renovaciones
    fallidos,        \* counter of diagnosticar_renovaciones
    escribible,      \* whether diagnostico_rangos.json can be written
    json_generado,   \* the content written to diagnostico_rangos.json
    resumen,         \* what obtener_resumen returned
    diag_pc,         \* position in the diagnosis function
    \* one range from detection to extraction
    via,             \* which formatter and extractor handle the range
    deteccion,       \* the 0-based pair a detector returned
    paginas_origen,  \* len(pdf) of the source at extraction time
    reemplazado,     \* the source PDF changed between the two passes
    persistido,      \* the range as written in the JSON file
    rango,           \* the range as loaded from the JSON file
    copiadas,        \* the 0-based source pages inserted into nuevo_pdf
    exitos,          \* counter of the per-document extraction loop
    errores,         \* counter of the per-document extraction loop
    rt_pc,           \* position of the range
    \* extraction pass over a persisted JSON (procesar_contratos, procesar_renovaciones)
    pase,            \* "contratos" or "renovaciones"
    datos_json,      \* the entries of the loaded JSON, in file order
    proc_idx,        \* how many entries the loop has gone through
    extraidas,       \* the section files written so far
    omitidas,        \* secciones_omitidas
    invocaciones,    \* the calls of the section extractor, in order
    proc_pc,         \* position in the extraction function
    \* the background operations of a tab (tab_contratos.py, tab_renovaciones.py)
    tab,             \* "contratos" or "renovaciones"
    botones,         \* isEnabled() of each button of the tab
    barra_visible,   \* progress_container.isVisible()
    hilo,            \* the QThread the tab holds and how far its run() got
    operacion,       \* the controller function the thread calls
    resultado_hilo,  \* the dict given to process_finished.emit
    entorno,         \* the file system the controller meets
    clics            \* how many button clicks the tab has handled

detVars == <<documento, construido, texto_paginas, total_paginas, resultado, anteriores, corridas>>
diagVars == <<flujo, archivos_pdf, idx, datos, archivos_procesados, fallidos, escribible,
              json_generado, resumen, diag_pc>>
rtVars == <<via, deteccion, paginas_origen, reemplazado, persistido, rango, copiadas, exitos,
            errores, rt_pc>>
procVars == <<pase, datos_json, proc_idx, extraidas, omitidas, invocaciones, proc_pc>>
tabVars == <<tab, botones, barra_visible, hilo, operacion, resultado_hilo, entorno, clics>>
vars == <<detVars, diagVars, rtVars, procVars, tabVars>>

\* the flows that a specification does not exercise stay idle
DetInactivo ==
    /\ documento = <<>> /\ construido = FALSE /\ texto_paginas = <<>> /\ total_paginas = 0
    /\ resultado = None /\ anteriores = {} /\ corridas = 0
DiagInactivo ==
    /\ flujo = "ninguno" /\ archivos_pdf = <<>> /\ idx = 0 /\ datos = <<>>
    /\ archivos_procesados = 0 /\ fallidos = 0 /\ escribible = TRUE
    /\ json_generado = None /\ resumen = None /\ diag_pc = "inactivo"
RtInactivo ==
    /\ via = "ninguna" /\ deteccion = None /\ paginas_origen = 0 /\ reemplazado = FALSE
    /\ persistido = None /\ rango = None /\ copiadas = <<>> /\ exitos = 0 /\ errores = 0
    /\ rt_pc = "inactivo"
ProcInactivo ==
    /\ pase = "ninguno" /\ datos_json = <<>> /\ proc_idx = 0 /\ extraidas = {}
    /\ omitidas = 0 /\ invocaciones = <<>> /\ proc_pc = "inactivo"
TabInactivo ==
    /\ tab = "ninguna" /\ botones = <<>> /\ barra_visible = FALSE /\ hilo = "ninguno"
    /\ operacion = "ninguna" /\ resultado_hilo = "ninguno" /\ entorno = <<>> /\ clics = 0

\* as texto_paginas_inicial, with the list shared between detectors
texto_paginas_compartida(previo) == previo

\* self.texto_paginas = [] in __init__
texto_paginas_inicial(previo) == <<>>

\* _extraer_texto: the text of every page, in order, appended to texto_paginas
extraer_texto(previo, pdf) == previo \o pdf

Init ==
    /\ documento \in Documentos
    /\ construido = FALSE
    /\ texto_paginas = <<>>
    /\ total_paginas = 0
    /\ resultado = None
    /\ anteriores = {}
    /\ corridas = 0
    /\ DiagInactivo /\ RtInactivo /\ ProcInactivo
    /\ TabInactivo

\* detector = SectionDetector(ruta_pdf)
Construir ==
    /\ ~construido
    /\ construido' = TRUE
    /\ texto_paginas' = extraer_texto(texto_paginas_inicial(texto_paginas), documento)
    /\ total_paginas' = Len(documento)
    /\ resultado' = None
    /\ UNCHANGED <<documento, anteriores, corridas, diagVars, rtVars, procVars>>
    /\ UNCHANGED tabVars

\* info = detector.detectar_todas_secciones()
Detectar ==
    /\ construido
    /\ EsNone(resultado)
    /\ corridas < MaxCorridas
    /\ LET info == detectar_todas_secciones(texto_paginas, total_paginas)
       IN  /\ resultado' = Some(info)
           /\ anteriores' = anteriores \cup {info}
    /\ corridas' = corridas + 1
    /\ UNCHANGED <<documento, construido, texto_paginas, total_paginas, diagVars, rtVars, procVars>>
    /\ UNCHANGED tabVars

Next == Construir \/ Detectar

Spec == Init /\ [][Next]_vars


(***************************************************************************)
(* Repeated detection of the same document: a second detector on the same  *)
(* file, or a second call on the same detector.                            *)
(***************************************************************************)
MaxPaginasRepetidas == 2

DocumentosRepetidos == SeqsHasta(PaginasGenerales, MaxPaginasRepetidas) \cup {Escenario}

InitIdem ==
    /\ documento \in DocumentosRepetidos
    /\ construido = FALSE
    /\ texto_paginas = <<>>
    /\ total_paginas = 0
    /\ resultado = None
    /\ anteriores = {}
    /\ corridas = 0
    /\ DiagInactivo /\ RtInactivo /\ ProcInactivo
    /\ TabInactivo

\* detector = SectionDetector(ruta_pdf), once more for the same file
Reconstruir ==
    /\ construido
    /\ ~EsNone(resultado)
    /\ corridas < MaxCorridas
    /\ texto_paginas' = extraer_texto(texto_paginas_inicial(texto_paginas), documento)
    /\ total_paginas' = Len(documento)
    /\ resultado' = None
    /\ UNCHANGED <<documento, construido, anteriores, corridas, diagVars, rtVars, procVars>>
    /\ UNCHANGED tabVars

\* detector.detectar_todas_secciones(), once more on the same detector
Redetectar ==
    /\ construido
    /\ ~EsNone(resultado)
    /\ corridas < MaxCorridas
    /\ LET info == detectar_todas_secciones(texto_paginas, total_paginas)
       IN  /\ resultado' = Some(info)
           /\ anteriores' = anteriores \cup {info}
    /\ corridas' = corridas + 1
    /\ UNCHANGED <<documento, construido, texto_paginas, total_paginas, diagVars, rtVars, procVars>>
    /\ UNCHANGED tabVars

NextIdem == Construir \/ Detectar \/ Reconstruir \/ Redetectar

SpecIdem == InitIdem /\ [][NextIdem]_vars

(***************************************************************************)
(* Renewal family.  A page of a renewal document is a record of the        *)
(* phrases its text holds: the heading "PRÓRROGA DE CONTRATO", the heading *)
(* of clause one, a signature block, the hazard-guide title, the           *)
(* hazard-guide table headers, an audit-report phrase, and its date        *)
(* phrases in text order.  A date phrase is what the three patterns of     *)
(* PatronesFecha can match: its opening words, the day, the month word,    *)
(* the connective before the year ("de" or "del") and the year.            *)
(***************************************************************************)
FECHA_FINALIZACION_PRORROGA == "FECHA_FINALIZACION_PRORROGA"
FECHA_ANTECEDENTES_PRORROGA == "FECHA_ANTECEDENTES_PRORROGA"
FECHA_INICIO_RENOVACION == "FECHA_INICIO_RENOVACION"

TODOS_LOS_PATRONES ==
    <<FECHA_ANTECEDENTES_PRORROGA, FECHA_FINALIZACION_PRORROGA, FECHA_INICIO_RENOVACION>>

\* re.search(patron, frase): "hasta el ..." also occurs inside "prorrogado sucesivamente
\* hasta el ..."; the renewal pattern wants "del" before the year
coincide(patron, frase) ==
    IF patron = FECHA_ANTECEDENTES_PRORROGA
    THEN frase.apertura = "prorrogado sucesivamente hasta el"
    ELSE IF patron = FECHA_FINALIZACION_PRORROGA
    THEN frase.apertura \in {"prorrogado sucesivamente hasta el", "hasta el"}
    ELSE frase.apertura = "a partir del" /\ frase.conectivo = "del"

\* buscar_patron_multiple: the patterns in order, each over the whole text; the match of
\* a pattern is its leftmost one
buscar_patron_multiple(texto, patrones) ==
    LET halla(k) == {j \in 1..Len(texto) : coincide(patrones[k], texto[j])}
        con == {k \in 1..Len(patrones) : halla(k) # {}}
    IN  IF con = {} THEN None ELSE Some(texto[Min(halla(Min(con)))])

\* mes.lower() on the month words of the documents
lower(mes) ==
    LET minusculas == "Octubre" :> "octubre" @@ "OCTUBRE" :> "octubre" @@
                      "Febrero" :> "febrero" @@ "Diciembre" :> "diciembre"
    IN  IF mes \in DOMAIN minusculas THEN minusculas[mes] ELSE mes

\* the dict of normalizar_mes, the months as numbers
meses ==
    "enero" :> 1 @@ "febrero" :> 2 @@ "marzo" :> 3 @@ "abril" :> 4 @@ "mayo" :> 5 @@
    "junio" :> 6 @@ "julio" :> 7 @@ "agosto" :> 8 @@ "setiembre" :> 9 @@
    "septiembre" :> 9 @@ "octubre" :> 10 @@ "noviembre" :> 11 @@ "diciembre" :> 12

\* as normalizar_mes, without lowering the month word first
normalizar_mes_sin_lower(mes) == IF mes \in DOMAIN meses THEN Some(meses[mes]) ELSE None

\* normalizar_mes: meses.get(mes.lower(), None)
normalizar_mes(mes) == IF lower(mes) \in DOMAIN meses THEN Some(meses[lower(mes)]) ELSE None

\* the text "MM.YYYY" of a month and a year
MM_YYYY ==
    <<1, 2024>> :> "01.2024" @@ <<2, 2024>> :> "02.2024" @@ <<3, 2024>> :> "03.2024" @@
    <<4, 2024>> :> "04.2024" @@ <<5, 2024>> :> "05.2024" @@ <<6, 2024>> :> "06.2024" @@
    <<7, 2024>> :> "07.2024" @@ <<8, 2024>> :> "08.2024" @@ <<9, 2024>> :> "09.2024" @@
    <<10, 2024>> :> "10.2024" @@ <<11, 2024>> :> "11.2024" @@ <<12, 2024>> :> "12.2024" @@
    <<1, 2025>> :> "01.2025" @@ <<2, 2025>> :> "02.2025" @@ <<3, 2025>> :> "03.2025" @@
    <<4, 2025>> :> "04.2025" @@ <<5, 2025>> :> "05.2025" @@ <<6, 2025>> :> "06.2025" @@
    <<7, 2025>> :> "07.2025" @@ <<8, 2025>> :> "08.2025" @@ <<9, 2025>> :> "09.2025" @@
    <<10, 2025>> :> "10.2025" @@ <<11, 2025>> :> "11.2025" @@ <<12, 2025>> :> "12.2025" @@
    <<1, 2026>> :> "01.2026" @@ <<2, 2026>> :> "02.2026" @@ <<3, 2026>> :> "03.2026" @@
    <<4, 2026>> :> "04.2026" @@ <<5, 2026>> :> "05.2026" @@ <<6, 2026>> :> "06.2026" @@
    <<7, 2026>> :> "07.2026" @@ <<8, 2026>> :> "08.2026" @@ <<9, 2026>> :> "09.2026" @@
    <<10, 2026>> :> "10.2026" @@ <<11, 2026>> :> "11.2026" @@ <<12, 2026>> :> "12.2026"

\* the day after a calendar date
dia_siguiente(dia, mes, anio) ==
    IF dia < DiasDelMes(anio, mes) THEN [dia |-> dia + 1, mes |-> mes, anio |-> anio]
    ELSE IF mes < 12 THEN [dia |-> 1, mes |-> mes + 1, anio |-> anio]
    ELSE [dia |-> 1, mes |-> 1, anio |-> anio + 1]

\* a matched date as "MM.YYYY": one day later for an extension, as it is for a renewal;
\* None when the month word is no month or the day is not a day of that month
fecha_de_coincidencia(match, tipo) ==
    LET mes == normalizar_mes(match.mes)
    IN  IF EsNone(mes) \/ ~FechaValida(match.anio, IF EsNone(mes) THEN 0 ELSE Val(mes), match.dia)
        THEN None
        ELSE LET f == IF tipo = "prorroga" THEN dia_siguiente(match.dia, Val(mes), match.anio)
                      ELSE [dia |-> match.dia, mes |-> Val(mes), anio |-> match.anio]
             IN  Some(MM_YYYY[<<f.mes, f.anio>>])

RECURSIVE texto_de(_)
\* the date phrases of some pages, in reading order
texto_de(T) == IF T = <<>> THEN <<>> ELSE T[1].frases \o texto_de(Tail(T))

\* the pages that hold clause one
clausula_primera(T) ==
    LET con == {i \in 1..Len(T) : T[i].antecedentes}
    IN  IF con = {} THEN <<>> ELSE <<T[Min(con)]>>

\* the date of a renewal document by its type: an extension looks for the end of the
\* prior term in clause one and then in the whole document; a renewal for the start of
\* the new term
extraer_fecha_renovacion(T, tipo) ==
    IF tipo = "prorroga"
    THEN LET en_clausula == buscar_patron_multiple(texto_de(clausula_primera(T)),
                                                   <<FECHA_ANTECEDENTES_PRORROGA>>)
             general == buscar_patron_multiple(texto_de(T),
                            <<FECHA_ANTECEDENTES_PRORROGA, FECHA_FINALIZACION_PRORROGA>>)
         IN  IF ~EsNone(en_clausula) THEN fecha_de_coincidencia(Val(en_clausula), tipo)
             ELSE IF ~EsNone(general) THEN fecha_de_coincidencia(Val(general), tipo)
             ELSE None
    ELSE LET inicio == buscar_patron_multiple(texto_de(T), <<FECHA_INICIO_RENOVACION>>)
         IN  IF EsNone(inicio) THEN None ELSE fecha_de_coincidencia(Val(inicio), tipo)

\* the type of a renewal document: the keyword of page 0, a renewal when in doubt
tipo_documento(T) == IF T[1].prorroga THEN "prorroga" ELSE "renovacion"

\* the contract of a renewal document starts on page 0; its end is the signature page,
\* else the page before the guide title, the guide table or the audit phrase, else the
\* last page
detectar_contrato_renovacion(T) ==
    LET n == Len(T)
        firma == Primero({i \in 0..(n - 1) : Pag(T, i).firma})
        titulo == Primero({i \in 1..(n - 1) : Pag(T, i).guia_titulo})
        tabla == Primero({i \in 1..(n - 1) : Pag(T, i).guia_tabla})
        auditoria == Primero({i \in 1..(n - 1) : Pag(T, i).auditoria})
    IN  Par(Some(0),
            Some(IF ~EsNone(firma) THEN Val(firma)
                 ELSE IF ~EsNone(titulo) THEN Val(titulo) - 1
                 ELSE IF ~EsNone(tabla) THEN Val(tabla) - 1
                 ELSE IF ~EsNone(auditoria) THEN Val(auditoria) - 1
                 ELSE n - 1))

\* the hazard guide of a renewal document: the first page with its title or its table,
\* one page long
detectar_guia_renovacion(T) ==
    LET hit == Primero({i \in 0..(Len(T) - 1) : Pag(T, i).guia_titulo \/ Pag(T, i).guia_tabla})
    IN  IF EsNone(hit) THEN NoDetectado ELSE Unica(Val(hit))

\* the audit report of a renewal document: from its first to its last matching page
detectar_auditoria_renovacion(T) ==
    LET con == {i \in 0..(Len(T) - 1) : Pag(T, i).auditoria}
    IN  IF con = {} THEN NoDetectado ELSE Par(Some(Min(con)), Some(Max(con)))

\* one step of the resolver: a start inside the range of the section of higher priority
\* moves to the page after that range
ajustar_inicio(mayor, menor) ==
    IF /\ ~EsNone(mayor.inicio) /\ ~EsNone(mayor.fin) /\ ~EsNone(menor.inicio)
       /\ Val(menor.inicio) >= Val(mayor.inicio)
       /\ Val(menor.inicio) <= Val(mayor.fin)
    THEN Par(Some(Val(mayor.fin) + 1), menor.fin)
    ELSE menor

\* as resolver_solapamientos, leaving every range as it was detected
resolver_sin_ajuste(contrato, guia, auditoria) ==
    [contrato |-> contrato, guia |-> guia, auditoria |-> auditoria]

\* the overlap resolver: contract over hazard guide over audit, each against the ranges
\* already resolved
resolver_solapamientos(contrato, guia, auditoria) ==
    LET guia_r == ajustar_inicio(contrato, guia)
        auditoria_r == ajustar_inicio(guia_r, ajustar_inicio(contrato, auditoria))
    IN  [contrato |-> contrato, guia |-> guia_r, auditoria |-> auditoria_r]

\* one section of resultado_deteccion, as agregar_archivo and diagnosticar_renovaciones read it
SeccionRenovacion(tipo, inicio, fin, fecha) ==
    [tipo_seccion |-> tipo, pagina_inicio |-> inicio, pagina_fin |-> fin,
     metadata |-> [fecha_contrato |-> fecha]]

\* what the detector of the renewal family returns: the three sections in their order,
\* the contract carrying the date
detectar_todas_secciones_renovacion(T) ==
    LET r == resolver_solapamientos(detectar_contrato_renovacion(T),
                                    detectar_guia_renovacion(T),
                                    detectar_auditoria_renovacion(T))
        fecha == extraer_fecha_renovacion(T, tipo_documento(T))
    IN  [secciones |->
             <<SeccionRenovacion("Contrato", r.contrato.inicio, r.contrato.fin, fecha),
               SeccionRenovacion("Guia de Peligros", r.guia.inicio, r.guia.fin, None),
               SeccionRenovacion("Auditoria", r.auditoria.inicio, r.auditoria.fin, None)>>,
         total_paginas |-> Len(T)]
\* the pages of renewal documents
Frase(apertura, dia, mes, conectivo, anio) ==
    [apertura |-> apertura, dia |-> dia, mes |-> mes, conectivo |-> conectivo, anio |-> anio]

PagRenovacion(prorroga, antecedentes, firma, guia_titulo, guia_tabla, auditoria, frases) ==
    [prorroga |-> prorroga, antecedentes |-> antecedentes, firma |-> firma,
     guia_titulo |-> guia_titulo, guia_tabla |-> guia_tabla, auditoria |-> auditoria,
     frases |-> frases]

\* "PRÓRROGA DE CONTRATO ... prorrogado sucesivamente hasta el 31 de Octubre del 2025"
RenProrroga ==
    PagRenovacion(TRUE, FALSE, FALSE, FALSE, FALSE, FALSE,
                  <<Frase("prorrogado sucesivamente hasta el", 31, "Octubre", "del", 2025)>>)

\* "PRÓRROGA DE CONTRATO ... hasta el 30 de junio del 2025 ... CLÁUSULA PRIMERA:
\* ANTECEDENTES ... prorrogado sucesivamente hasta el 31 de diciembre de 2025"
RenProrrogaClausula ==
    PagRenovacion(TRUE, TRUE, FALSE, FALSE, FALSE, FALSE,
                  <<Frase("hasta el", 30, "junio", "del", 2025),
                    Frase("prorrogado sucesivamente hasta el", 31, "diciembre", "de", 2025)>>)

\* "PRÓRROGA DE CONTRATO ... hasta el 15 de marzo de 2025"
RenProrrogaMedio ==
    PagRenovacion(TRUE, FALSE, FALSE, FALSE, FALSE, FALSE,
                  <<Frase("hasta el", 15, "marzo", "de", 2025)>>)

\* "PRÓRROGA DE CONTRATO ... hasta el 29 de febrero del 2024"
RenProrrogaBisiesto ==
    PagRenovacion(TRUE, FALSE, FALSE, FALSE, FALSE, FALSE,
                  <<Frase("hasta el", 29, "febrero", "del", 2024)>>)

\* "PRÓRROGA DE CONTRATO ... hasta el 31 de febrero del 2025"
RenProrrogaInvalida ==
    PagRenovacion(TRUE, FALSE, FALSE, FALSE, FALSE, FALSE,
                  <<Frase("hasta el", 31, "febrero", "del", 2025)>>)

\* "... a partir del 02 de noviembre del 2025", with the signature block
RenRenovacion ==
    PagRenovacion(FALSE, FALSE, TRUE, FALSE, FALSE, FALSE,
                  <<Frase("a partir del", 2, "noviembre", "del", 2025)>>)

RenCuerpo == PagRenovacion(FALSE, FALSE, FALSE, FALSE, FALSE, FALSE, <<>>)
RenMencion == PagRenovacion(FALSE, FALSE, FALSE, TRUE, FALSE, FALSE, <<>>)
RenFirma == PagRenovacion(FALSE, FALSE, TRUE, FALSE, FALSE, FALSE, <<>>)
RenGuia == PagRenovacion(FALSE, FALSE, FALSE, TRUE, TRUE, FALSE, <<>>)
RenAuditoria == PagRenovacion(FALSE, FALSE, FALSE, FALSE, FALSE, TRUE, <<>>)

PrimerasPaginas ==
    {RenProrroga, RenProrrogaClausula, RenProrrogaMedio, RenProrrogaBisiesto,
     RenProrrogaInvalida, RenRenovacion}

PaginasSiguientes == {RenCuerpo, RenMencion, RenFirma, RenGuia, RenAuditoria}

MaxPaginasRenovacion == 4

\* a renewal document: its opening page and the pages after it
DocumentosRenovacion ==
    {<<p>> \o s : p \in PrimerasPaginas,
                  s \in {<<>>} \cup SeqsHasta(PaginasSiguientes, MaxPaginasRenovacion - 1)}

InitRen ==
    /\ documento \in DocumentosRenovacion
    /\ construido = FALSE
    /\ texto_paginas = <<>>
    /\ total_paginas = 0
    /\ resultado = None
    /\ anteriores = {}
    /\ corridas = 0
    /\ DiagInactivo /\ RtInactivo /\ ProcInactivo
    /\ TabInactivo

\* texto_paginas = [pagina.get_text("text") for pagina in doc]
LeerRenovacion ==
    /\ ~construido
    /\ construido' = TRUE
    /\ texto_paginas' = documento
    /\ total_paginas' = Len(documento)
    /\ UNCHANGED <<documento, resultado, anteriores, corridas, diagVars, rtVars, procVars>>
    /\ UNCHANGED tabVars

\* resultado_deteccion = section_detector.detectar_todas_secciones(texto_paginas, ...)
DetectarRenovacion ==
    /\ construido
    /\ EsNone(resultado)
    /\ resultado' = Some(detectar_todas_secciones_renovacion(texto_paginas))
    /\ corridas' = corridas + 1
    /\ UNCHANGED <<documento, construido, texto_paginas, total_paginas, anteriores,
                   diagVars, rtVars, procVars>>
    /\ UNCHANGED tabVars

NextRen == LeerRenovacion \/ DetectarRenovacion

SpecRen == InitRen /\ [][NextRen]_vars

(***************************************************************************)
(* Batch diagnosis: diagnosticar_contratos and diagnosticar_renovaciones.  *)
(* One file of the folder is a record: its name, what goes wrong with it   *)
(* ("abrir": opening it raises; "detectar": the detector raises), its      *)
(* pages (contracts) and what the renewals detector returns for it.        *)
(***************************************************************************)
MaxArchivos == 3

Nombres == <<"a.pdf", "b.pdf", "c.pdf", "d.pdf", "e.pdf">>

DocumentosLote == {<<PagContrato, PagFormulario, PagGuia>>, <<PagContrato, PagAuditoria>>}

DocumentosLoteRenovacion ==
    {<<RenProrroga, RenFirma, RenAuditoria>>, <<RenRenovacion, RenGuia>>,
     <<RenProrrogaInvalida, RenCuerpo>>}

DeteccionesRenovacion ==
    {detectar_todas_secciones_renovacion(T) : T \in DocumentosLoteRenovacion}

Fallas(f) == IF f = "contratos" THEN {"ninguna", "abrir"} ELSE {"ninguna", "abrir", "detectar"}

Contenidos(f) ==
    IF f = "contratos"
    THEN {[falla |-> x, paginas |-> p, deteccion |-> None] :
              x \in Fallas(f), p \in DocumentosLote}
    ELSE {[falla |-> x, paginas |-> <<>>, deteccion |-> Some(d)] :
              x \in Fallas(f), d \in DeteccionesRenovacion}

Lotes(f) ==
    UNION {{[i \in 1..k |-> [nombre |-> Nombres[i], falla |-> c[i].falla,
                             paginas |-> c[i].paginas, deteccion |-> c[i].deteccion]] :
                c \in [1..k -> Contenidos(f)]} : k \in 1..MaxArchivos}

RECURSIVE Suma(_)
\* sum(...) over the values of a dict
Suma(f) ==
    IF DOMAIN f = {} THEN 0
    ELSE LET x == CHOOSE x \in DOMAIN f : TRUE
         IN  f[x] + Suma([y \in DOMAIN f \ {x} |-> f[y]])

\* self.datos[nombre] = entrada
Asignar(d, nombre, entrada) == (nombre :> entrada) @@ d

\* contracts JSONGenerator._calcular_total_paginas: the largest fin
calcular_total_paginas(secciones) ==
    Max({0} \cup {Val(Val(secciones[s]).fin) : s \in {t \in DOMAIN secciones : ~EsNone(secciones[t])}})

\* as agregar_archivo, keeping only the sections that were detected
agregar_archivo_solo_detectadas(d, nombre_archivo, info) ==
    Asignar(d, nombre_archivo,
            [total_paginas |-> calcular_total_paginas(info.secciones),
             fecha_contrato |-> info.fecha_contrato,
             fecha_origen |-> info.fecha_origen,
             secciones |-> [s \in {t \in DOMAIN info.secciones : ~EsNone(info.secciones[t])} |->
                               info.secciones[s]]])

\* contracts JSONGenerator.agregar_archivo
agregar_archivo(d, nombre_archivo, info) ==
    Asignar(d, nombre_archivo,
            [total_paginas |-> calcular_total_paginas(info.secciones),
             fecha_contrato |-> info.fecha_contrato,
             fecha_origen |-> info.fecha_origen,
             secciones |-> info.secciones])

\* as cuenta_faltante, with the else branch counting nothing
cuenta_faltante_nunca(r) == FALSE

\* obtener_resumen: the else branch of "if rango is not None"
cuenta_faltante(r) == EsNone(r)

\* contracts JSONGenerator.obtener_resumen
obtener_resumen(d) ==
    LET con_error == {a \in DOMAIN d : "error" \in DOMAIN d[a]}
        sanos == DOMAIN d \ con_error
        detectadas(a) == Cardinality({s \in DOMAIN d[a].secciones : ~EsNone(d[a].secciones[s])})
        faltantes(a) == Cardinality({s \in DOMAIN d[a].secciones : cuenta_faltante(d[a].secciones[s])})
        con(s) == {a \in sanos : s \in DOMAIN d[a].secciones}
    IN  [total_archivos |-> Cardinality(DOMAIN d),
         total_secciones_detectadas |-> Suma([a \in sanos |-> detectadas(a)]),
         total_secciones_faltantes |-> Suma([a \in sanos |-> faltantes(a)]),
         archivos_con_errores |-> con_error,
         estadisticas_por_seccion |->
             [s \in UNION {DOMAIN d[a].secciones : a \in sanos} |->
                 [detectadas |-> Cardinality({a \in con(s) : ~EsNone(d[a].secciones[s])}),
                  faltantes |-> Cardinality({a \in con(s) : cuenta_faltante(d[a].secciones[s])})]],
         fechas_desde_sunat |->
             Cardinality({a \in sanos : d[a].fecha_origen = "sunat" /\ ~EsNone(d[a].fecha_contrato)})]

\* renewals: a section with both pages not None is written 1-based, else null
formato_renovacion(pagina_inicio, pagina_fin) ==
    IF ~EsNone(pagina_inicio) /\ ~EsNone(pagina_fin)
    THEN Some([inicio |-> Some(Val(pagina_inicio) + 1), fin |-> Some(Val(pagina_fin) + 1)])
    ELSE None

\* renewals JSONGenerator.agregar_archivo
agregar_archivo_renovaciones(d, nombre_archivo, resultado_deteccion, fecha_contrato) ==
    LET secs == resultado_deteccion.secciones
        ultima(t) == Max({k \in 1..Len(secs) : secs[k].tipo_seccion = t})
        secciones_formato ==
            [t \in {secs[k].tipo_seccion : k \in 1..Len(secs)} |->
                formato_renovacion(secs[ultima(t)].pagina_inicio, secs[ultima(t)].pagina_fin)]
    IN  Asignar(d, nombre_archivo,
                [total_paginas |-> resultado_deteccion.total_paginas,
                 fecha_contrato |-> IF EsNone(fecha_contrato) THEN "No detectada" ELSE Val(fecha_contrato),
                 secciones |-> secciones_formato])

\* diagnosticar_renovaciones: the date of the first Contrato or Auditoria section that has one
fecha_de_renovacion(resultado_deteccion) ==
    LET secs == resultado_deteccion.secciones
        con_fecha == {k \in 1..Len(secs) :
                         /\ secs[k].tipo_seccion \in {"Contrato", "Auditoria"}
                         /\ ~EsNone(secs[k].metadata.fecha_contrato)}
    IN  IF con_fecha = {} THEN None ELSE secs[Min(con_fecha)].metadata.fecha_contrato

\* renewals JSONGenerator.obtener_resumen
obtener_resumen_renovaciones(d) ==
    LET fechas_detectadas == Cardinality({a \in DOMAIN d : d[a].fecha_contrato # "No detectada"})
    IN  [total_archivos |-> Cardinality(DOMAIN d),
         total_paginas |-> Suma([a \in DOMAIN d |-> d[a].total_paginas]),
         fechas_detectadas |-> fechas_detectadas,
         fechas_no_detectadas |-> Cardinality(DOMAIN d) - fechas_detectadas]

\* as continuar_tras_error, with the handler leaving the loop
abortar_tras_error(i, total) == total

\* except Exception: log and go on with the next file
continuar_tras_error(i, total) == i + 1

InitDiag ==
    /\ flujo \in {"contratos", "renovaciones"}
    /\ archivos_pdf \in Lotes(flujo)
    /\ idx = 0
    /\ datos = <<>>
    /\ archivos_procesados = 0
    /\ fallidos = 0
    /\ escribible \in BOOLEAN
    /\ json_generado = None
    /\ resumen = None
    /\ diag_pc = "bucle"
    /\ DetInactivo /\ RtInactivo /\ ProcInactivo
    /\ TabInactivo

\* one iteration of "for idx, archivo in enumerate(archivos_pdf, 1)"
DiagnosticarArchivo ==
    /\ diag_pc = "bucle"
    /\ idx < Len(archivos_pdf)
    /\ LET archivo == archivos_pdf[idx + 1]
       IN  IF archivo.falla # "ninguna"
           THEN /\ idx' = continuar_tras_error(idx, Len(archivos_pdf))
                /\ fallidos' = IF flujo = "renovaciones" THEN fallidos + 1 ELSE fallidos
                /\ UNCHANGED <<datos, archivos_procesados>>
           ELSE /\ idx' = idx + 1
                /\ IF flujo = "contratos"
                   THEN LET T == extraer_texto(texto_paginas_inicial(<<>>), archivo.paginas)
                            info == detectar_todas_secciones(T, Len(archivo.paginas))
                        IN  /\ datos' = agregar_archivo(datos, archivo.nombre, info)
                            /\ UNCHANGED archivos_procesados
                   ELSE LET resultado_deteccion == Val(archivo.deteccion)
                        IN  /\ datos' = agregar_archivo_renovaciones(datos, archivo.nombre,
                                            resultado_deteccion, fecha_de_renovacion(resultado_deteccion))
                            /\ archivos_procesados' = archivos_procesados + 1
                /\ UNCHANGED fallidos
    /\ UNCHANGED <<flujo, archivos_pdf, escribible, json_generado, resumen, diag_pc>>
    /\ UNCHANGED <<detVars, rtVars, procVars>>
    /\ UNCHANGED tabVars

\* after the loop: generar_json_consolidado, then obtener_resumen
GenerarConsolidado ==
    /\ diag_pc = "bucle"
    /\ idx >= Len(archivos_pdf)
    /\ IF escribible
       THEN /\ json_generado' = Some(datos)
            /\ resumen' = Some(IF flujo = "contratos" THEN obtener_resumen(datos)
                               ELSE obtener_resumen_renovaciones(datos))
            /\ diag_pc' = "fin"
       ELSE /\ diag_pc' = IF flujo = "contratos" THEN "error_json" ELSE "excepcion"
            /\ UNCHANGED <<json_generado, resumen>>
    /\ UNCHANGED <<flujo, archivos_pdf, idx, datos, archivos_procesados, fallidos, escribible>>
    /\ UNCHANGED <<detVars, rtVars, procVars>>
    /\ UNCHANGED tabVars

NextDiag == DiagnosticarArchivo \/ GenerarConsolidado

SpecDiag == InitDiag /\ [][NextDiag]_vars

(***************************************************************************)
(* The aggregators on their own: any sequence of agregar_archivo calls on  *)
(* one JSONGenerator, with obtener_resumen asked in between.  Here         *)
(* archivos_pdf holds the file names of the calls made so far.             *)
(***************************************************************************)
MaxLlamadas == 3

NombresAgregados == {"a.pdf", "b.pdf", "c.pdf"}

DocumentosAgregados == DocumentosLote \cup {<<PagTexto>>, <<PagFormulario, PagBlanco>>}

InitAgr ==
    /\ flujo \in {"contratos", "renovaciones"}
    /\ archivos_pdf = <<>>
    /\ idx = 0
    /\ datos = <<>>
    /\ archivos_procesados = 0
    /\ fallidos = 0
    /\ escribible = TRUE
    /\ json_generado = None
    /\ resumen = None
    /\ diag_pc = "agregador"
    /\ DetInactivo /\ RtInactivo /\ ProcInactivo
    /\ TabInactivo

\* json_gen.agregar_archivo(nombre, info) of the contracts family
AgregarContrato ==
    /\ diag_pc = "agregador" /\ flujo = "contratos"
    /\ idx < MaxLlamadas
    /\ \E nombre \in NombresAgregados, T \in DocumentosAgregados :
           /\ datos' = agregar_archivo(datos, nombre, detectar_todas_secciones(T, Len(T)))
           /\ archivos_pdf' = Append(archivos_pdf, nombre)
    /\ idx' = idx + 1
    /\ resumen' = None
    /\ UNCHANGED <<flujo, archivos_procesados, fallidos, escribible, json_generado,
                   diag_pc>>
    /\ UNCHANGED <<detVars, rtVars, procVars>>
    /\ UNCHANGED tabVars

\* json_generator.agregar_archivo(nombre_archivo, resultado_deteccion, fecha_contrato) of
\* the renewal family
AgregarRenovacion ==
    /\ diag_pc = "agregador" /\ flujo = "renovaciones"
    /\ idx < MaxLlamadas
    /\ \E nombre \in NombresAgregados, r \in DeteccionesRenovacion :
           /\ datos' = agregar_archivo_renovaciones(datos, nombre, r, fecha_de_renovacion(r))
           /\ archivos_pdf' = Append(archivos_pdf, nombre)
    /\ idx' = idx + 1
    /\ resumen' = None
    /\ UNCHANGED <<flujo, archivos_procesados, fallidos, escribible, json_generado,
                   diag_pc>>
    /\ UNCHANGED <<detVars, rtVars, procVars>>
    /\ UNCHANGED tabVars

\* resumen = json_gen.obtener_resumen()
ObtenerResumen ==
    /\ diag_pc = "agregador"
    /\ EsNone(resumen)
    /\ resumen' = Some(IF flujo = "contratos" THEN obtener_resumen(datos)
                       ELSE obtener_resumen_renovaciones(datos))
    /\ UNCHANGED <<flujo, archivos_pdf, idx, datos, archivos_procesados, fallidos, escribible,
                   json_generado, diag_pc>>
    /\ UNCHANGED <<detVars, rtVars, procVars>>
    /\ UNCHANGED tabVars

NextAgr == AgregarContrato \/ AgregarRenovacion \/ ObtenerResumen

SpecAgr == InitAgr /\ [][NextAgr]_vars

(***************************************************************************)
(* One range from detection to extraction.  The diagnosis pass formats the *)
(* detected 0-based pair and writes it to the JSON file; the extraction    *)
(* pass loads it and copies pages of the source PDF, which may have been   *)
(* replaced in between.  via names the code path: "contratos" is           *)
(* _format_rango and extraer_seccion, "renovaciones" the renewals          *)
(* agregar_archivo and extraer_paginas_pdf, "divider" the renewals         *)
(* agregar_archivo and extraer_seccion_pdf.                                *)
(***************************************************************************)
MaxPaginasOrigen == 10

Digitos == <<"0", "1", "2", "3", "4", "5", "6", "7", "8", "9">>

RECURSIVE json_dump_entero(_)
\* json.dump of an int: its decimal digits
json_dump_entero(k) ==
    IF k < 10 THEN <<Digitos[k + 1]>>
    ELSE json_dump_entero(k \div 10) \o <<Digitos[(k % 10) + 1]>>

\* json.load of an int
json_load_entero(texto) == ToInt(texto)

\* list(range(a, b))
Intervalo(a, b) == [k \in 1..(b - a) |-> a + k - 1]

\* nuevo_pdf.save(ruta_salida): with no page inserted the library may refuse
guardar_lanza(paginas, vacio_falla) == paginas = <<>> /\ vacio_falla

\* as extraer_seccion, without the conversion of inicio to 0-based
extraer_seccion_sin_resta(total, inicio, fin, vacio_falla) ==
    LET inicio_idx == Max({inicio, 0})
        fin_idx == Min({fin, total})
        paginas == Intervalo(inicio_idx, fin_idx)
    IN  [copiadas |-> paginas, lanza |-> guardar_lanza(paginas, vacio_falla)]

\* core/contratos/processor.py extraer_seccion; every exception is raised again
extraer_seccion(total, inicio, fin, vacio_falla) ==
    LET inicio_idx == Max({inicio - 1, 0})
        fin_idx == Min({fin, total})
        paginas == Intervalo(inicio_idx, fin_idx)
    IN  [copiadas |-> paginas, lanza |-> guardar_lanza(paginas, vacio_falla)]

\* controllers/renovaciones_controller.py extraer_paginas_pdf
extraer_paginas_pdf(total, paginas_inicio, paginas_fin, vacio_falla) ==
    LET inicio == Max({paginas_inicio - 1, 0})
        fin == Min({paginas_fin, total})
        paginas == Intervalo(inicio, fin)
    IN  [copiadas |-> paginas, lanza |-> guardar_lanza(paginas, vacio_falla)]

\* core/renovaciones/divider.py extraer_seccion_pdf
extraer_seccion_pdf(total, paginas_inicio, paginas_fin, vacio_falla) ==
    LET inicio == Max({paginas_inicio - 1, 0})
        fin == Min({paginas_fin, total})
    IN  IF inicio >= total \/ inicio >= fin
        THEN [copiadas |-> <<>>, lanza |-> TRUE]
        ELSE [copiadas |-> Intervalo(inicio, fin),
              lanza |-> guardar_lanza(Intervalo(inicio, fin), vacio_falla)]

InitRT ==
    /\ via \in {"contratos", "renovaciones", "divider"}
    /\ paginas_origen \in 1..MaxPaginasOrigen
    /\ \E s, e \in 0..(MaxPaginasOrigen - 1) :
           /\ s <= e /\ e < paginas_origen
           /\ deteccion = Some([inicio |-> s, fin |-> e])
    /\ reemplazado = FALSE
    /\ persistido = None
    /\ rango = None
    /\ copiadas = <<>>
    /\ exitos = 0
    /\ errores = 0
    /\ rt_pc = "detectado"
    /\ DetInactivo /\ DiagInactivo /\ ProcInactivo
    /\ TabInactivo

\* diagnosis pass: format the pair and write it with json.dump
Persistir ==
    /\ rt_pc = "detectado"
    /\ LET d == Val(deteccion)
           formateado == IF via = "contratos" THEN format_rango(Some(d.inicio), Some(d.fin))
                         ELSE formato_renovacion(Some(d.inicio), Some(d.fin))
       IN  persistido' = Some([inicio |-> json_dump_entero(Val(Val(formateado).inicio)),
                               fin |-> json_dump_entero(Val(Val(formateado).fin))])
    /\ rt_pc' = "persistido"
    /\ UNCHANGED <<via, deteccion, paginas_origen, reemplazado, rango, copiadas, exitos, errores>>
    /\ UNCHANGED <<detVars, diagVars, procVars>>
    /\ UNCHANGED tabVars

\* between the passes the PDF of that name is replaced by one of another length
ReemplazarPdf ==
    /\ rt_pc = "persistido"
    /\ ~reemplazado
    /\ \E total \in 1..MaxPaginasOrigen :
           /\ total # paginas_origen
           /\ paginas_origen' = total
    /\ reemplazado' = TRUE
    /\ UNCHANGED <<via, deteccion, persistido, rango, copiadas, exitos, errores, rt_pc>>
    /\ UNCHANGED <<detVars, diagVars, procVars>>
    /\ UNCHANGED tabVars

\* extraction pass: json.load
Cargar ==
    /\ rt_pc = "persistido"
    /\ rango' = Some([inicio |-> json_load_entero(Val(persistido).inicio),
                      fin |-> json_load_entero(Val(persistido).fin)])
    /\ rt_pc' = "cargado"
    /\ UNCHANGED <<via, deteccion, paginas_origen, reemplazado, persistido, copiadas, exitos, errores>>
    /\ UNCHANGED <<detVars, diagVars, procVars>>
    /\ UNCHANGED tabVars

\* extraction pass: the section's extractor inside the try of the per-section loop
Extraer ==
    /\ rt_pc = "cargado"
    /\ \E vacio_falla \in BOOLEAN :
           LET r == Val(rango)
               salida == IF via = "contratos"
                         THEN extraer_seccion(paginas_origen, r.inicio, r.fin, vacio_falla)
                         ELSE IF via = "renovaciones"
                         THEN extraer_paginas_pdf(paginas_origen, r.inicio, r.fin, vacio_falla)
                         ELSE extraer_seccion_pdf(paginas_origen, r.inicio, r.fin, vacio_falla)
           IN  /\ copiadas' = IF salida.lanza THEN <<>> ELSE salida.copiadas
               /\ exitos' = IF salida.lanza THEN exitos ELSE exitos + 1
               /\ errores' = IF salida.lanza /\ via # "renovaciones" THEN errores + 1 ELSE errores
               /\ rt_pc' = IF salida.lanza THEN "error" ELSE "extraido"
    /\ UNCHANGED <<via, deteccion, paginas_origen, reemplazado, persistido, rango>>
    /\ UNCHANGED <<detVars, diagVars, procVars>>
    /\ UNCHANGED tabVars

NextRT == Persistir \/ ReemplazarPdf \/ Cargar \/ Extraer

SpecRT == InitRT /\ [][NextRT]_vars


(***************************************************************************)
(* Extraction pass over a persisted JSON: procesar_contratos and           *)
(* procesar_renovaciones.  An entry of the JSON is a file name and its     *)
(* info, a function from the keys that are present to their values.        *)
(***************************************************************************)
MaxEntradas == 3

\* pages of every source PDF of the folder
PaginasPdf == 3

ClavesRequeridas == {"total_paginas", "fecha_contrato", "secciones"}

SeccionesJson ==
    ("Contrato de Trabajo" :> Some([inicio |-> 1, fin |-> 2]))
        @@ ("Guia de Peligro" :> None)
        @@ ("Contrato Auditoria" :> Some([inicio |-> 3, fin |-> 3]))

\* fecha_contrato as the diagnosis pass writes it: null or "No detectada" when absent
FechasJson(p) ==
    IF p = "contratos" THEN {Some("03.2025"), None} ELSE {Some("03.2025"), Some("No detectada")}

InfoCompleta(p) ==
    {("total_paginas" :> PaginasPdf) @@ ("fecha_contrato" :> f) @@ ("secciones" :> SeccionesJson) :
         f \in FechasJson(p)}

\* the same entries with one key missing
Sin(info, clave) == [c \in DOMAIN info \ {clave} |-> info[c]]

Infos(p) == InfoCompleta(p) \cup {Sin(info, c) : info \in InfoCompleta(p), c \in ClavesRequeridas}

\* an entry of the JSON and whether its PDF is still in the folder
Entradas(p) ==
    {[info |-> i, existe |-> TRUE] : i \in Infos(p)}
        \cup {[info |-> i, existe |-> FALSE] : i \in InfoCompleta(p)}

JsonsCargados(p) ==
    UNION {{[i \in 1..k |-> [nombre |-> Nombres[i], info |-> c[i].info, existe |-> c[i].existe]] :
                c \in [1..k -> Entradas(p)]} : k \in 0..MaxEntradas}

\* info.get(clave, defecto)
get(info, clave, defecto) == IF clave \in DOMAIN info THEN info[clave] ELSE defecto

\* core/contratos/processor.py validar_json_diagnostico
validar_json_diagnostico(dj) ==
    IF Len(dj) = 0 THEN FALSE
    ELSE "secciones" \in DOMAIN dj[1].info /\ "fecha_contrato" \in DOMAIN dj[1].info

\* the section files one document yields: every section with a range whose extractor does not raise
secciones_a_extraer(p, nombre, secciones, vacio_falla) ==
    {[archivo |-> nombre, seccion |-> s,
      paginas |-> IF p = "contratos"
                  THEN extraer_seccion(PaginasPdf, Val(secciones[s]).inicio,
                                       Val(secciones[s]).fin, vacio_falla).copiadas
                  ELSE extraer_paginas_pdf(PaginasPdf, Val(secciones[s]).inicio,
                                           Val(secciones[s]).fin, vacio_falla).copiadas] :
         s \in {t \in DOMAIN secciones :
                   /\ ~EsNone(secciones[t])
                   /\ IF p = "contratos"
                      THEN ~extraer_seccion(PaginasPdf, Val(secciones[t]).inicio,
                                            Val(secciones[t]).fin, vacio_falla).lanza
                      ELSE ~extraer_paginas_pdf(PaginasPdf, Val(secciones[t]).inicio,
                                                Val(secciones[t]).fin, vacio_falla).lanza}}

RECURSIVE items(_)
\* secciones.items(): every key once, in the order of the file
items(claves) ==
    IF claves = {} THEN <<>>
    ELSE LET s == CHOOSE s \in claves : TRUE IN <<s>> \o items(claves \ {s})

\* as omitir_seccion, letting every section through
omitir_ninguna(r) == FALSE

\* "if rango is None: continue" / "if not rango: continue"
omitir_seccion(r) == EsNone(r)

\* the calls of extraer_seccion / extraer_paginas_pdf that one document gives rise to
invocaciones_de(nombre, secciones) ==
    LET orden == items(DOMAIN secciones)
        llamadas == {k \in 1..Len(orden) : ~omitir_seccion(secciones[orden[k]])}
        llamada(k) == [archivo |-> nombre, seccion |-> orden[k], rango |-> secciones[orden[k]]]
        RECURSIVE desde(_)
        desde(k) == IF k > Len(orden) THEN <<>>
                    ELSE (IF k \in llamadas THEN <<llamada(k)>> ELSE <<>>) \o desde(k + 1)
    IN  desde(1)

InitProc ==
    /\ pase \in {"contratos", "renovaciones"}
    /\ datos_json \in JsonsCargados(pase)
    /\ proc_idx = 0
    /\ extraidas = {}
    /\ omitidas = 0
    /\ invocaciones = <<>>
    /\ proc_pc = "cargado"
    /\ DetInactivo /\ DiagInactivo /\ RtInactivo
    /\ TabInactivo

\* procesar_contratos validates the loaded JSON; procesar_renovaciones goes straight to its loop
ValidarJson ==
    /\ proc_pc = "cargado"
    /\ proc_pc' = IF pase = "contratos" /\ ~validar_json_diagnostico(datos_json)
                  THEN "rechazado" ELSE "bucle"
    /\ UNCHANGED <<pase, datos_json, proc_idx, extraidas, omitidas, invocaciones>>
    /\ UNCHANGED <<detVars, diagVars, rtVars>>
    /\ UNCHANGED tabVars

\* one iteration of the loop over the entries of the JSON
ProcesarEntrada ==
    /\ proc_pc = "bucle"
    /\ proc_idx < Len(datos_json)
    /\ LET entrada == datos_json[proc_idx + 1]
           fecha_contrato == get(entrada.info, "fecha_contrato", None)
           secciones == get(entrada.info, "secciones", <<>>)
           nulas == Cardinality({s \in DOMAIN secciones : EsNone(secciones[s])})
       IN  IF ~entrada.existe \/ (pase = "contratos" /\ EsNone(fecha_contrato))
           THEN UNCHANGED <<extraidas, omitidas, invocaciones>>
           ELSE /\ \E vacio_falla \in BOOLEAN :
                       extraidas' = extraidas \cup
                           secciones_a_extraer(pase, entrada.nombre, secciones, vacio_falla)
                /\ omitidas' = omitidas + nulas
                /\ invocaciones' = invocaciones \o invocaciones_de(entrada.nombre, secciones)
    /\ proc_idx' = proc_idx + 1
    /\ UNCHANGED <<pase, datos_json, proc_pc>>
    /\ UNCHANGED <<detVars, diagVars, rtVars>>
    /\ UNCHANGED tabVars

\* the loop is over: summary and return
Finalizar ==
    /\ proc_pc = "bucle"
    /\ proc_idx >= Len(datos_json)
    /\ proc_pc' = "fin"
    /\ UNCHANGED <<pase, datos_json, proc_idx, extraidas, omitidas, invocaciones>>
    /\ UNCHANGED <<detVars, diagVars, rtVars>>
    /\ UNCHANGED tabVars

NextProc == ValidarJson \/ ProcesarEntrada \/ Finalizar

SpecProc == InitProc /\ [][NextProc]_vars


(***************************************************************************)
(* Properties of the initial-contract detector.                            *)
(***************************************************************************)
Detectado == ~EsNone(resultado)
Sec(nombre) == Val(resultado).secciones[nombre]
Hay(nombre) == ~EsNone(Sec(nombre))
Ini(nombre) == Val(Val(Sec(nombre)).inicio)
Fin(nombre) == Val(Val(Sec(nombre)).fin)
Rango(inicio, fin) == Some([inicio |-> Some(inicio), fin |-> Some(fin)])

\* C1: no page is claimed by two different detected sections: for detected
\* sections A # B, A.fin < B.inicio or B.fin < A.inicio.
C1_SinSolapamiento ==
    Detectado =>
        \A a, b \in Secciones :
            (a # b /\ Hay(a) /\ Hay(b)) => (Fin(a) < Ini(b) \/ Fin(b) < Ini(a))

\* C2: each of the 12 returned ranges is null, or has both bounds non-null
\* with 1 <= inicio <= fin <= number of pages of the document.
C2_RangosBienFormados ==
    Detectado =>
        \A s \in Secciones :
            Hay(s) =>
                /\ ~EsNone(Val(Sec(s)).inicio)
                /\ ~EsNone(Val(Sec(s)).fin)
                /\ 1 <= Ini(s) /\ Ini(s) <= Fin(s) /\ Fin(s) <= Len(documento)

C2_Testigo ==
    /\ Detectado
    /\ DOMAIN Val(resultado).secciones = Secciones
    /\ \E s \in Secciones : Hay(s) /\ Ini(s) < Fin(s) /\ Fin(s) = Len(documento)
    /\ \E s \in Secciones : ~Hay(s)

\* C3: on the five-page reference document the detector returns Contract 1-1,
\* Tax registration 2-3, Hazard guide 4-4 and Audit 5-5.
C3_Escenario ==
    (Detectado /\ documento \in {Escenario, EscenarioExtenso}) =>
        /\ Sec("Contrato de Trabajo") = Rango(1, 1)
        /\ Sec("Constancia de Alta") = Rango(2, 3)
        /\ Sec("Guia de Peligro") = Rango(4, 4)
        /\ Sec("Contrato Auditoria") = Rango(5, 5)

C3_Testigo == Detectado /\ documento = Escenario /\ Hay("Guia de Peligro")

\* C4: a candidate page with one marker fewer than the section's threshold is
\* rejected and a candidate page with exactly the threshold is accepted, for the
\* hazard guide (title + 2), the combined acknowledgment (3), RISST (2) and
\* the Chinalco acknowledgment (2).
ValidacionesGuia(i) == ContarExacto(Pag(documento, i), PATRONES_guia_peligros_validacion)
TituloGuia(i) == Alguno(Pag(documento, i), PATRONES_guia_peligros_titulo)
ValidacionesConstancia(i) == contar_coincidencias(Pag(documento, i), patrones_validacion)
CoincidenciasRisst(i) == contar_coincidencias(Pag(documento, i), PATRONES_risst_2025)
CoincidenciasChinalco(i) == contar_coincidencias(Pag(documento, i), PATRONES_risst_chinalco)
Indices == 0..(Len(documento) - 1)

\* candidate pages of the hazard guide: title pages after the tax-registration end
CandidatasGuia ==
    {i \in Indices : TituloGuia(i) /\ (Hay("Constancia de Alta") => i >= Fin("Constancia de Alta"))}

\* candidate pages of the combined acknowledgment, primary first
CandidatasConstancia ==
    (IF Hay("Constancia de politica de reembolso de viajes")
        /\ Ini("Constancia de politica de reembolso de viajes") \in Indices
     THEN <<Ini("Constancia de politica de reembolso de viajes")>> ELSE <<>>)
    \o (IF Hay("Codigo de conducta") /\ Ini("Codigo de conducta") \in Indices
        THEN <<Ini("Codigo de conducta")>> ELSE <<>>)

\* candidate page of the Chinalco acknowledgment: the page before the audit report
CandidataChinalco ==
    IF Hay("Contrato Auditoria") /\ Ini("Contrato Auditoria") >= 2
    THEN Some(Ini("Contrato Auditoria") - 2) ELSE None

C4_UmbralGuia ==
    /\ Hay("Guia de Peligro") =>
           /\ Ini("Guia de Peligro") - 1 \in CandidatasGuia
           /\ ValidacionesGuia(Ini("Guia de Peligro") - 1) >= 2
    /\ \A i \in CandidatasGuia :
           /\ ValidacionesGuia(i) = 1 => ~(Hay("Guia de Peligro") /\ Ini("Guia de Peligro") = i + 1)
           /\ (ValidacionesGuia(i) = 2 /\ \A j \in CandidatasGuia : j < i => ValidacionesGuia(j) < 2)
                  => Hay("Guia de Peligro") /\ Ini("Guia de Peligro") = i + 1
    /\ (\E i \in CandidatasGuia : ValidacionesGuia(i) >= 2) => Hay("Guia de Peligro")

C4_UmbralConstancia ==
    LET s == "Constancia de RIT,RISST,HOST.SEXUAL,P.SALARIAL"
        c == CandidatasConstancia
        Vale(k) == k <= Len(c) /\ ValidacionesConstancia(c[k]) >= 3
    IN  /\ Hay(s) => ValidacionesConstancia(Ini(s) - 1) >= 3
        /\ (Len(c) >= 1 /\ Vale(1)) => Sec(s) = Rango(c[1] + 1, c[1] + 1)
        /\ (Len(c) >= 2 /\ ~Vale(1) /\ Vale(2)) => Sec(s) = Rango(c[2] + 1, c[2] + 1)
        /\ (\A k \in 1..Len(c) : ~Vale(k)) => ~Hay(s)

C4_UmbralRisst ==
    /\ Hay("RISST 2025") => CoincidenciasRisst(Ini("RISST 2025") - 1) >= 2
    /\ (\E i \in Indices : CoincidenciasRisst(i) >= 2) => Hay("RISST 2025")
    /\ \A i \in Indices :
           (CoincidenciasRisst(i) = 2 /\ \A j \in Indices \ {i} : CoincidenciasRisst(j) < 2)
               => Sec("RISST 2025") = Rango(i + 1, i + 1)

C4_UmbralChinalco ==
    LET s == "RISST CHINALCO 2025"
        c == CandidataChinalco
    IN  /\ Hay(s) => (~EsNone(c) /\ Ini(s) = Val(c) + 1 /\ CoincidenciasChinalco(Val(c)) >= 2)
        /\ (~EsNone(c) /\ CoincidenciasChinalco(Val(c)) = 1) => ~Hay(s)
        /\ (~EsNone(c) /\ CoincidenciasChinalco(Val(c)) = 2) => Sec(s) = Rango(Val(c) + 1, Val(c) + 1)

C4_Umbrales ==
    Detectado => (C4_UmbralGuia /\ C4_UmbralConstancia /\ C4_UmbralRisst /\ C4_UmbralChinalco)

\* a document where a title page with 1 marker was passed over and the next
\* title page, with exactly 2, was taken
C4_Testigo ==
    /\ Detectado
    /\ \E i, j \in CandidatasGuia :
           /\ i < j /\ ValidacionesGuia(i) = 1 /\ ValidacionesGuia(j) = 2
           /\ Sec("Guia de Peligro") = Rango(j + 1, j + 1)

\* C6: every detection of the same document returns the same result (same 12
\* ranges, same contract date), whether a new detector is built or the same one
\* is asked again.
C6_Determinista == Cardinality(anteriores) <= 1

C6_Testigo ==
    /\ corridas = MaxCorridas
    /\ Cardinality(anteriores) = 1
    /\ Detectado
    /\ \E s \in Secciones : Hay(s) /\ Ini(s) < Fin(s)


(***************************************************************************)
(* Properties of the batch diagnosis.                                      *)
(***************************************************************************)
ArchivoSano(k) == archivos_pdf[k].falla = "ninguna"

\* what the aggregator holds for a file that was detected
EntradaEsperada(k) ==
    IF flujo = "contratos"
    THEN agregar_archivo(<<>>, archivos_pdf[k].nombre,
             detectar_todas_secciones(archivos_pdf[k].paginas, Len(archivos_pdf[k].paginas)))
    ELSE agregar_archivo_renovaciones(<<>>, archivos_pdf[k].nombre, Val(archivos_pdf[k].deteccion),
             fecha_de_renovacion(Val(archivos_pdf[k].deteccion)))

\* C7: an exception while opening or detecting file k does not abort the batch:
\* the loop reaches every file, every file that opens and detects is in the
\* aggregator with its detection, and the consolidated JSON is generated at the
\* end when the file can be written.
C7_LoteContinua ==
    /\ \A k \in 1..idx :
           ArchivoSano(k) =>
               /\ archivos_pdf[k].nombre \in DOMAIN datos
               /\ datos[archivos_pdf[k].nombre] = EntradaEsperada(k)[archivos_pdf[k].nombre]
    /\ diag_pc \in {"fin", "error_json", "excepcion"} => idx = Len(archivos_pdf)
    /\ (diag_pc # "bucle" /\ escribible) => (diag_pc = "fin" /\ json_generado = Some(datos))

C7_Testigo ==
    /\ diag_pc = "fin"
    /\ json_generado = Some(datos)
    /\ \E k \in 1..(Len(archivos_pdf) - 1) :
           /\ ~ArchivoSano(k)
           /\ ArchivoSano(k + 1)
           /\ archivos_pdf[k + 1].nombre \in DOMAIN datos

\* C8: after a batch diagnosis every input file is in the consolidated
\* structure, a failed one with an error marker and, for contracts, listed in
\* the summary's archivos_con_errores.
C8_FallidosRegistrados ==
    diag_pc = "fin" =>
        \A k \in 1..Len(archivos_pdf) :
            /\ archivos_pdf[k].nombre \in DOMAIN datos
            /\ ~ArchivoSano(k) =>
                   /\ "error" \in DOMAIN datos[archivos_pdf[k].nombre]
                   /\ flujo = "contratos" =>
                          archivos_pdf[k].nombre \in Val(resumen).archivos_con_errores


(***************************************************************************)
(* Properties of the hand-off between the passes.                          *)
(***************************************************************************)
\* C5: a section detected at 0-based pages [s,e] is persisted as
\* {inicio: s+1, fin: e+1}; loading that range and extracting it from the same
\* source copies exactly the 0-based pages s..e, e-s+1 pages; a section at
\* 1-based pages [3,7] is persisted as [3,7] and extraction yields pages 3 to 7.
C5_IdaYVuelta ==
    LET s == Val(deteccion).inicio
        e == Val(deteccion).fin
    IN  /\ rt_pc \in {"cargado", "extraido", "error"} =>
               Val(rango) = [inicio |-> s + 1, fin |-> e + 1]
        /\ (rt_pc \in {"extraido", "error"} /\ ~reemplazado) =>
               /\ rt_pc = "extraido"
               /\ Len(copiadas) = e - s + 1
               /\ \A k \in 1..Len(copiadas) : copiadas[k] = s + k - 1
               /\ exitos = 1 /\ errores = 0
        /\ (rt_pc = "persistido" /\ s = 2 /\ e = 6) =>
               persistido = Some([inicio |-> <<"3">>, fin |-> <<"7">>])
        /\ (rt_pc \in {"extraido", "error"} /\ ~reemplazado /\ s = 2 /\ e = 6) =>
               (Val(rango) = [inicio |-> 3, fin |-> 7] /\ copiadas = <<2, 3, 4, 5, 6>>)

C5_Testigo ==
    /\ rt_pc = "extraido"
    /\ ~reemplazado
    /\ via = "contratos"
    /\ Val(rango) = [inicio |-> 3, fin |-> 7]
    /\ copiadas = <<2, 3, 4, 5, 6>>

\* C10: when the end of the requested 1-based range exceeds the page count of
\* the source, extraction copies the pages from inicio to the last page, does
\* not raise, and no extraction error is counted.
C10_RecorteSinError ==
    (rt_pc \in {"extraido", "error"} /\ Val(rango).fin > paginas_origen) =>
        /\ rt_pc = "extraido"
        /\ errores = 0
        /\ copiadas = Intervalo(Val(rango).inicio - 1, paginas_origen)

\* C9: if any entry of the loaded JSON lacks total_paginas, fecha_contrato or
\* secciones, the batch is rejected and no section of any document is extracted.
EntradaMalformada(k) == ~(ClavesRequeridas \subseteq DOMAIN datos_json[k].info)

C9_RechazoTotal ==
    (\E k \in 1..Len(datos_json) : EntradaMalformada(k)) =>
        (extraidas = {} /\ proc_pc \in {"cargado", "rechazado"})

\* C11: in the consolidated diagnosis every document of a family carries the same set of
\* section names, whatever calls of agregar_archivo built it: a name present for one
\* document is present, with a range or null, for every other document.
C11_MismasSecciones ==
    \A a \in DOMAIN datos, b \in DOMAIN datos :
        DOMAIN datos[a].secciones = DOMAIN datos[b].secciones

\* two documents of the contracts family, one with a section that the other lacks
C11_Testigo ==
    /\ flujo = "contratos"
    /\ \E a \in DOMAIN datos, b \in DOMAIN datos :
           \E s \in DOMAIN datos[a].secciones :
               /\ s \in DOMAIN datos[b].secciones
               /\ ~EsNone(datos[a].secciones[s])
               /\ EsNone(datos[b].secciones[s])

\* the three sections of a renewal detection, in the order of their priority, and the
\* ranges the three detectors found before the resolver ran
SecRen(k) == Val(resultado).secciones[k]
HayRen(k) == ~EsNone(SecRen(k).pagina_inicio) /\ ~EsNone(SecRen(k).pagina_fin)
DetectadoRen(k) ==
    IF k = 1 THEN detectar_contrato_renovacion(texto_paginas)
    ELSE IF k = 2 THEN detectar_guia_renovacion(texto_paginas)
    ELSE detectar_auditoria_renovacion(texto_paginas)
RenovacionDetectada == ~EsNone(resultado) /\ "total_paginas" \in DOMAIN Val(resultado)

\* the resolver moves only the start of a section of lower priority, and only forward;
\* the contract, of the highest priority, keeps its range
SoloAvanzaInicios ==
    /\ SecRen(1).pagina_inicio = DetectadoRen(1).inicio
    /\ \A k \in 1..3 :
           /\ SecRen(k).pagina_fin = DetectadoRen(k).fin
           /\ EsNone(SecRen(k).pagina_inicio) = EsNone(DetectadoRen(k).inicio)
           /\ ~EsNone(SecRen(k).pagina_inicio) =>
                  Val(SecRen(k).pagina_inicio) >= Val(DetectadoRen(k).inicio)

\* C12 as stated: after the resolver, for any two sections A of higher and B of lower
\* priority (contract, hazard guide, audit) with both ranges present, B starts after the
\* end of A; the resolver only moves starts of lower priority forward.
C12_InicioTrasFin ==
    RenovacionDetectada =>
        /\ SoloAvanzaInicios
        /\ \A a \in 1..3, b \in 1..3 :
               (a < b /\ HayRen(a) /\ HayRen(b)) =>
                   Val(SecRen(b).pagina_inicio) > Val(SecRen(a).pagina_fin)

\* C12, amended: after the resolver, for any two sections A of higher and B of lower
\* priority with both ranges present, B starts after the end of A unless B starts before
\* the start of A; the resolver only moves starts of lower priority forward.
C12_SinContencion ==
    RenovacionDetectada =>
        /\ SoloAvanzaInicios
        /\ \A a \in 1..3, b \in 1..3 :
               (/\ a < b /\ HayRen(a) /\ HayRen(b)
                /\ Val(SecRen(b).pagina_inicio) >= Val(SecRen(a).pagina_inicio)) =>
                   Val(SecRen(b).pagina_inicio) > Val(SecRen(a).pagina_fin)

\* the audit report was found starting inside the contract and now starts after it
C12_Testigo ==
    /\ RenovacionDetectada
    /\ HayRen(1) /\ HayRen(3)
    /\ Val(DetectadoRen(3).inicio) <= Val(SecRen(1).pagina_fin)
    /\ Val(SecRen(3).pagina_inicio) = Val(SecRen(1).pagina_fin) + 1
    /\ Val(SecRen(3).pagina_inicio) <= Val(SecRen(3).pagina_fin)

\* the calls of the extractor made for section s of the k-th document of the hand-off
LlamadasDe(k, s) ==
    {j \in 1..Len(invocaciones) :
        invocaciones[j].archivo = datos_json[k].nombre /\ invocaciones[j].seccion = s}
SeccionesDe(k) == get(datos_json[k].info, "secciones", <<>>)

\* document k: one call per section with a range, carrying that range, and no call for
\* a null section, so that its calls are as many as its sections with a range
UnaPorSeccion(k) ==
    /\ \A s \in DOMAIN SeccionesDe(k) :
           IF EsNone(SeccionesDe(k)[s]) THEN LlamadasDe(k, s) = {}
           ELSE /\ Cardinality(LlamadasDe(k, s)) = 1
                /\ \A j \in LlamadasDe(k, s) : invocaciones[j].rango = SeccionesDe(k)[s]
    /\ Cardinality({j \in 1..Len(invocaciones) : invocaciones[j].archivo = datos_json[k].nombre})
           = Cardinality({s \in DOMAIN SeccionesDe(k) : ~EsNone(SeccionesDe(k)[s])})

\* C13 as stated: in the extraction pass every document of the hand-off gets exactly one
\* extraction per section with a range, with that 1-based range, and none for a null
\* section; its extraction attempts are as many as its sections with a range.
C13_UnaExtraccionPorSeccion ==
    proc_pc \in {"bucle", "fin"} => \A k \in 1..proc_idx : UnaPorSeccion(k)

\* the documents the loop does not pass over: the PDF is in the folder and, for the
\* contracts family, the entry has a contract date
Procesado(k) ==
    /\ datos_json[k].existe
    /\ pase = "contratos" => ~EsNone(get(datos_json[k].info, "fecha_contrato", None))

\* C13, amended: in the extraction pass every document of the hand-off whose PDF is in the
\* folder and, in the contracts family, whose contract date is not null gets exactly one
\* extraction per section with a range, with that 1-based range, and none for a null
\* section; a document without PDF or (contracts) without date gets none at all.
C13_UnaExtraccionPorSeccionProcesada ==
    proc_pc \in {"bucle", "fin"} =>
        \A k \in 1..proc_idx :
            IF Procesado(k) THEN UnaPorSeccion(k)
            ELSE \A j \in 1..Len(invocaciones) : invocaciones[j].archivo # datos_json[k].nombre

\* the pass is over a hand-off with a dated document, whose two sections were extracted
\* and whose null section was not, and a contracts document without date, passed over
C13_Testigo ==
    /\ proc_pc = "fin" /\ pase = "contratos"
    /\ \E k \in 1..Len(datos_json), l \in 1..Len(datos_json) :
           /\ Procesado(k)
           /\ \E s \in DOMAIN SeccionesDe(k), t \in DOMAIN SeccionesDe(k) :
                  /\ EsNone(SeccionesDe(k)[s]) /\ LlamadasDe(k, s) = {}
                  /\ ~EsNone(SeccionesDe(k)[t]) /\ Cardinality(LlamadasDe(k, t)) = 1
           /\ datos_json[l].existe /\ ~Procesado(l)
           /\ SeccionesDe(l) # <<>>

\* the date text that the patterns match in the pages of the reported tax registration
\* (at most three pages from its start): the first pattern, in the order principal,
\* secundario, terciario, that matches at all
VentanaFecha ==
    {i \in 0..(Len(documento) - 1) :
        /\ i >= Ini("Constancia de Alta") - 1
        /\ i <= Fin("Constancia de Alta") - 1
        /\ i <= Ini("Constancia de Alta") + 1
        /\ ~EsNone(Pag(documento, i).fecha)}
DeTipo(tipo) == {i \in VentanaFecha : Val(Pag(documento, i).fecha).tipo = tipo}
FechaCoincidente ==
    LET tipos == <<"principal", "secundario", "terciario">>
        con == {k \in 1..3 : DeTipo(tipos[k]) # {}}
    IN  IF ~Hay("Constancia de Alta") \/ con = {} THEN None
        ELSE Some(Val(Pag(documento, Min(DeTipo(tipos[Min(con)]))).fecha).texto)

\* a day, a month and a year that name a day of the calendar
EsFechaDeCalendario(dia, mes, anio) ==
    /\ anio \in 1..9999
    /\ mes \in 1..12
    /\ dia >= 1
    /\ dia <= (IF mes \in {1, 3, 5, 7, 8, 10, 12} THEN 31
               ELSE IF mes \in {4, 6, 9, 11} THEN 30
               ELSE IF (anio % 4 = 0 /\ anio % 100 # 0) \/ anio % 400 = 0 THEN 29
               ELSE 28)

\* C14: the date extraction never fails the detection: all 12 sections are returned
\* whatever the date text; a matched date text that is no calendar date (31/02/2025)
\* gives the contract date null, a valid DD/MM/YYYY gives "MM.YYYY", and without a
\* matched date text the date is null.
C14_FechaNuncaFalla ==
    Detectado =>
        /\ DOMAIN Val(resultado).secciones = Secciones
        /\ IF EsNone(FechaCoincidente) THEN Val(resultado).fecha_contrato = None
           ELSE LET t == Val(FechaCoincidente)
                IN  IF EsFechaDeCalendario(ToInt(t.dia), ToInt(t.mes), ToInt(t.anio))
                    THEN Val(resultado).fecha_contrato = Some(t.mes \o <<".">> \o t.anio)
                    ELSE Val(resultado).fecha_contrato = None

\* a detection whose tax registration holds the text 31/02/2025: the date is null and
\* the contract and the tax registration are reported
C14_Testigo ==
    /\ Detectado
    /\ Hay("Contrato de Trabajo") /\ Hay("Constancia de Alta")
    /\ FechaCoincidente = Some([dia |-> <<"3", "1">>, mes |-> <<"0", "2">>,
                                anio |-> <<"2", "0", "2", "5">>])
    /\ Val(resultado).fecha_contrato = None

\* the contract date that a renewal detection reports
FechaRenovacion == SecRen(1).metadata.fecha_contrato

\* C15: an extension-type renewal document reports the day after the end of the prior
\* term, as MM.YYYY: "prorrogado sucesivamente hasta el 31 de Octubre del 2025" on page 0
\* gives "11.2025"; the last day of a month gives the next month (31 December 2025 gives
\* "01.2026", 29 February 2024 gives "03.2024") and a day inside a month gives that month.
C15_UnDiaMas ==
    RenovacionDetectada =>
        /\ documento[1] = RenProrroga => FechaRenovacion = Some("11.2025")
        /\ documento[1] = RenProrrogaClausula => FechaRenovacion = Some("01.2026")
        /\ documento[1] = RenProrrogaBisiesto => FechaRenovacion = Some("03.2024")
        /\ documento[1] = RenProrrogaMedio => FechaRenovacion = Some("03.2025")

\* the document of the scenario has been detected, with the date of the next month
C15_Testigo ==
    /\ RenovacionDetectada
    /\ documento[1] = RenProrroga
    /\ tipo_documento(texto_paginas) = "prorroga"
    /\ FechaRenovacion = Some("11.2025")

\* the documents aggregated so far: the distinct file names of the calls
NombresDistintos == {archivos_pdf[i] : i \in 1..Len(archivos_pdf)}

\* C16: after any sequence of agregar_archivo calls on the contracts aggregator,
\* obtener_resumen reports, for every section type, detectadas + faltantes = the number of
\* aggregated documents, total detected + total missing = 12 times that number, and
\* total_archivos = the number of distinct file names added.
C16_ResumenCuadra ==
    (diag_pc = "agregador" /\ flujo = "contratos" /\ ~EsNone(resumen)) =>
        LET r == Val(resumen)
            n == Cardinality(NombresDistintos)
        IN  /\ r.total_archivos = n
            /\ r.total_secciones_detectadas + r.total_secciones_faltantes = 12 * n
            /\ n > 0 => DOMAIN r.estadisticas_por_seccion = Secciones
            /\ \A s \in DOMAIN r.estadisticas_por_seccion :
                   r.estadisticas_por_seccion[s].detectadas
                       + r.estadisticas_por_seccion[s].faltantes = n

\* a summary asked after three calls, two of them for the same file name, with sections
\* found and sections missing
C16_Testigo ==
    /\ diag_pc = "agregador" /\ flujo = "contratos" /\ ~EsNone(resumen)
    /\ Len(archivos_pdf) = 3
    /\ Val(resumen).total_archivos = 2
    /\ Val(resumen).total_secciones_detectadas > 0
    /\ Val(resumen).total_secciones_faltantes > 0

\* the pages that carry the contract title
TitulosContrato ==
    {i \in 0..(Len(documento) - 1) : Alguno(Pag(documento, i), PATRONES_contrato)}

\* C17 as stated: the contract body starts at the first page that matches the contract
\* title (reported start k + 1 for a first match on 0-based page k) and is null when no
\* page matches it.
C17_InicioEnTitulo ==
    Detectado =>
        IF TitulosContrato = {} THEN ~Hay("Contrato de Trabajo")
        ELSE Hay("Contrato de Trabajo") /\ Ini("Contrato de Trabajo") = Min(TitulosContrato) + 1

\* C17, amended: the contract body always starts at the first page of the document
\* (reported start 1), wherever the contract title is, and is never null, not even when
\* no page matches the title.
C17_InicioEnPaginaUno ==
    Detectado => (Hay("Contrato de Trabajo") /\ Ini("Contrato de Trabajo") = 1)

\* a detected document whose first contract title is on its second page, and one
\* condition more: the contract is reported from page 1
C17_Testigo ==
    /\ Detectado
    /\ TitulosContrato # {} /\ Min(TitulosContrato) = 1
    /\ Hay("Contrato de Trabajo") /\ Ini("Contrato de Trabajo") = 1

\* the pages with a start marker of the tax registration, of either tier, and the pages
\* with one of the two phrases that _detectar_contrato looks for
MarcadoresAlta ==
    {i \in 0..(Len(documento) - 1) :
        \/ Alguno(Pag(documento, i), PATRONES_alta_sunat_inicio_primario)
        \/ Alguno(Pag(documento, i), PATRONES_alta_sunat_inicio_secundario)}
FrasesFinContrato ==
    {i \in 0..(Len(documento) - 1) :
        \/ Contiene(Pag(documento, i), "constancia de alta")
        \/ Contiene(Pag(documento, i), "formulario 1604")}

\* C18 as stated: the contract body ends on the page before the first page with a start
\* marker of the tax registration, primary or secondary, so that contract.fin + 1 =
\* tax-registration.inicio when the tax registration is detected after page 0; without
\* any such marker it ends on the last page of the document.
C18_FinAntesDeAlta ==
    (Detectado /\ Hay("Contrato de Trabajo")) =>
        IF MarcadoresAlta = {} THEN Fin("Contrato de Trabajo") = Len(documento)
        ELSE (Hay("Constancia de Alta") /\ Ini("Constancia de Alta") > 1) =>
                 Fin("Contrato de Trabajo") + 1 = Ini("Constancia de Alta")

\* C18, amended: the contract body ends on the page before the first page that contains
\* "constancia de alta" or "formulario 1604" (letter case ignored), on page 1 when that
\* page is the first, so that contract.fin + 1 = tax-registration.inicio when the tax
\* registration starts on that page after page 0; without such a page it ends on page 1.
C18_FinAntesDeFrase ==
    Detectado =>
        /\ Hay("Contrato de Trabajo")
        /\ IF FrasesFinContrato = {} THEN Fin("Contrato de Trabajo") = 1
           ELSE /\ Fin("Contrato de Trabajo") = Max({Min(FrasesFinContrato), 1})
                /\ (/\ Hay("Constancia de Alta")
                    /\ Ini("Constancia de Alta") > 1
                    /\ Ini("Constancia de Alta") = Min(FrasesFinContrato) + 1) =>
                       Fin("Contrato de Trabajo") + 1 = Ini("Constancia de Alta")

\* a document of three pages with the tax registration on the third page, found by its
\* secondary marker alone: the contract ends on page 1
C18_Testigo ==
    /\ Detectado
    /\ Len(documento) = 3
    /\ FrasesFinContrato = {}
    /\ Hay("Constancia de Alta") /\ Ini("Constancia de Alta") = 3
    /\ Hay("Contrato de Trabajo") /\ Fin("Contrato de Trabajo") = 1

\* the pages with a primary start marker, with a secondary start marker and with a
\* finish marker of the tax registration
PrimariosAlta ==
    {i \in 0..(Len(documento) - 1) : Alguno(Pag(documento, i), PATRONES_alta_sunat_inicio_primario)}
SecundariosAlta ==
    {i \in 0..(Len(documento) - 1) : Alguno(Pag(documento, i), PATRONES_alta_sunat_inicio_secundario)}
FinesAlta ==
    {i \in 0..(Len(documento) - 1) : Alguno(Pag(documento, i), PATRONES_alta_sunat_fin)}

\* C19: the tax registration starts at the first page with a primary start marker
\* whenever there is one, even after a page with a secondary marker; the secondary
\* markers count only when no page has a primary one; it ends at the first page from
\* its start on that has a finish marker, and at its start when there is none.
C19_DosNiveles ==
    Detectado =>
        IF PrimariosAlta \cup SecundariosAlta = {} THEN ~Hay("Constancia de Alta")
        ELSE LET inicio == IF PrimariosAlta # {} THEN Min(PrimariosAlta) ELSE Min(SecundariosAlta)
                 fines == {i \in FinesAlta : i >= inicio}
             IN  /\ Hay("Constancia de Alta")
                 /\ Ini("Constancia de Alta") = inicio + 1
                 /\ Fin("Constancia de Alta") = (IF fines = {} THEN inicio ELSE Min(fines)) + 1

\* a secondary marker on the first page and a primary marker on the second: the tax
\* registration starts on the second page
C19_Testigo ==
    /\ Detectado
    /\ 0 \in SecundariosAlta /\ 0 \notin PrimariosAlta /\ 1 \in PrimariosAlta
    /\ Hay("Constancia de Alta") /\ Ini("Constancia de Alta") = 2

\* C20: whenever the tax registration and the hazard guide are both detected, the hazard
\* guide starts after the end of the tax registration: a page at or before that end with
\* the guide title and at least 2 validation markers is never its start.
C20_GuiaTrasAlta ==
    (Detectado /\ Hay("Constancia de Alta") /\ Hay("Guia de Peligro")) =>
        Ini("Guia de Peligro") > Fin("Constancia de Alta")

\* a page before the tax registration carries the title and two validation markers, and
\* the hazard guide is found on a later page
C20_Testigo ==
    /\ Detectado
    /\ Hay("Constancia de Alta") /\ Hay("Guia de Peligro")
    /\ \E i \in Indices :
           /\ i + 1 <= Fin("Constancia de Alta")
           /\ TituloGuia(i) /\ ValidacionesGuia(i) >= 2
    /\ Ini("Guia de Peligro") > Fin("Constancia de Alta")

\* C21: once the hazard-guide start s is found, the end is the largest e >= s
\* such that every page s+1..e carries at least 3 continuation markers: the
\* page after the end, if there is one, fails the threshold, and no later page
\* is included even if it carries 3 or more continuation markers again.
ContinuacionesGuia(i) == ContarExacto(Pag(documento, i), PATRONES_guia_peligros_continuacion)

C21_ExtensionContigua ==
    (Detectado /\ Hay("Guia de Peligro")) =>
        /\ Ini("Guia de Peligro") <= Fin("Guia de Peligro")
        /\ \A i \in Indices :
               (Ini("Guia de Peligro") <= i /\ i <= Fin("Guia de Peligro") - 1) =>
                   ContinuacionesGuia(i) >= 3
        /\ Fin("Guia de Peligro") < Len(documento) =>
               ContinuacionesGuia(Fin("Guia de Peligro")) < 3

C21_Testigo ==
    /\ Detectado /\ Hay("Guia de Peligro")
    /\ Ini("Guia de Peligro") < Fin("Guia de Peligro")
    /\ \E i \in Indices :
           /\ i > Fin("Guia de Peligro")
           /\ ContinuacionesGuia(i) >= 3

\* C22 (as claimed): the extension of the hazard guide is capped to a fixed
\* window: fin - inicio never exceeds 15 pages.
C22_VentanaFija ==
    (Detectado /\ Hay("Guia de Peligro")) =>
        Fin("Guia de Peligro") - Ini("Guia de Peligro") <= 15

\* C22 (amended): the extension has no window of its own; it runs to the
\* first page that fails the threshold or to the end of the document, so
\* fin - inicio never exceeds the number of pages after the start and equals
\* it when every page after the start carries 3 or more continuation markers.
C22_HastaElFinal ==
    (Detectado /\ Hay("Guia de Peligro")) =>
        /\ Fin("Guia de Peligro") <= Len(documento)
        /\ (\A i \in Indices : i >= Ini("Guia de Peligro") => ContinuacionesGuia(i) >= 3) =>
               Fin("Guia de Peligro") = Len(documento)

C22_Testigo ==
    /\ Detectado /\ Hay("Guia de Peligro")
    /\ \A i \in Indices : i >= Ini("Guia de Peligro") => ContinuacionesGuia(i) >= 3
    /\ Fin("Guia de Peligro") - Ini("Guia de Peligro") > 15
    /\ Fin("Guia de Peligro") = Len(documento)

\* C23: whenever the dependent-beneficiary section is detected, every page p
\* of its range lies after the tax-registration end (when the tax registration
\* is detected) and before the hazard-guide start (when the hazard guide is
\* detected), and every page of the range is judged near-empty.
JuzgadaVacia(i) == es_pagina_vacia_o_firma(documento, Len(documento), i)

C23_DentroDelHueco ==
    (Detectado /\ Hay("Constancia de Alta DerechoHabiente")) =>
        \A p \in Ini("Constancia de Alta DerechoHabiente")..Fin("Constancia de Alta DerechoHabiente") :
            /\ Hay("Constancia de Alta") => Fin("Constancia de Alta") < p
            /\ Hay("Guia de Peligro") => p < Ini("Guia de Peligro")
            /\ JuzgadaVacia(p - 1)

\* C24 (as claimed): if the page right after the tax-registration end is not
\* near-empty, the dependent-beneficiary section is null.
PrimeraDelHuecoConTexto ==
    /\ Detectado
    /\ Hay("Constancia de Alta")
    /\ Fin("Constancia de Alta") < Len(documento)
    /\ ~JuzgadaVacia(Fin("Constancia de Alta"))

C24_AusenteSiHayTexto ==
    PrimeraDelHuecoConTexto => ~Hay("Constancia de Alta DerechoHabiente")

\* C24 (amended): if the page right after the tax-registration end is not
\* near-empty, the dependent-beneficiary section is null unless the hazard
\* guide is detected after page 1 and the page just before it is near-empty,
\* in which case the section is exactly that page.
AnteriorAGuiaVacia ==
    /\ Hay("Guia de Peligro")
    /\ Ini("Guia de Peligro") > 1
    /\ JuzgadaVacia(Ini("Guia de Peligro") - 2)

C24_AusenteSalvoRespaldo ==
    PrimeraDelHuecoConTexto =>
        IF AnteriorAGuiaVacia
        THEN Sec("Constancia de Alta DerechoHabiente") =
                 Rango(Ini("Guia de Peligro") - 1, Ini("Guia de Peligro") - 1)
        ELSE ~Hay("Constancia de Alta DerechoHabiente")

C24_Testigo ==
    /\ PrimeraDelHuecoConTexto
    /\ AnteriorAGuiaVacia
    /\ Ini("Guia de Peligro") - 1 > Fin("Constancia de Alta") + 1
    /\ Sec("Constancia de Alta DerechoHabiente") =
           Rango(Ini("Guia de Peligro") - 1, Ini("Guia de Peligro") - 1)

\* C25: with a single gap page between the tax-registration end and the
\* hazard-guide start, the dependent-beneficiary section is exactly that page
\* if the page holds only 40 characters of text, and null if the page holds
\* 300 characters including the string REGLAMENTO.
UnaPaginaDeHueco ==
    /\ Detectado
    /\ Hay("Constancia de Alta") /\ Hay("Guia de Peligro")
    /\ Ini("Guia de Peligro") = Fin("Constancia de Alta") + 2

PaginaDelHueco == Pag(documento, Fin("Constancia de Alta"))

C25_HuecoDeUnaPagina ==
    UnaPaginaDeHueco =>
        /\ (PaginaDelHueco.len = 40 /\ PaginaDelHueco.frags = {}) =>
               Sec("Constancia de Alta DerechoHabiente") =
                   Rango(Fin("Constancia de Alta") + 1, Fin("Constancia de Alta") + 1)
        /\ (PaginaDelHueco.len = 300 /\ Contiene(PaginaDelHueco, "REGLAMENTO")) =>
               ~Hay("Constancia de Alta DerechoHabiente")

\* C26: a page that contains an excluded section keyword is judged not empty,
\* also when its text is shorter than 150 characters, and is never part of the
\* dependent-beneficiary section.
ConPalabraExcluida(i) == \E p \in patrones_excluidos : ContieneMayus(Pag(documento, i), p)

C26_ExcluidaNuncaVacia ==
    Detectado =>
        \A i \in Indices :
            ConPalabraExcluida(i) =>
                /\ ~JuzgadaVacia(i)
                /\ Hay("Constancia de Alta DerechoHabiente") =>
                       ~(Ini("Constancia de Alta DerechoHabiente") <= i + 1
                         /\ i + 1 <= Fin("Constancia de Alta DerechoHabiente"))

\* C27 (as claimed): the travel-reimbursement acknowledgment is a single page
\* and, when more than one page matches its phrases, it is the last of them.
TitulosReembolso == {i \in Indices : Alguno(Pag(documento, i), PATRONES_politica_reembolso_titulo)}
AcusesReembolso ==
    {i \in TitulosReembolso : Alguno(Pag(documento, i), PATRONES_politica_reembolso_constancia)}

C27_UltimaCoincidente ==
    (Detectado /\ Hay("Constancia de politica de reembolso de viajes")) =>
        /\ Ini("Constancia de politica de reembolso de viajes") =
               Fin("Constancia de politica de reembolso de viajes")
        /\ TitulosReembolso # {}
        /\ Ini("Constancia de politica de reembolso de viajes") = Max(TitulosReembolso) + 1

\* C27 (amended): the travel-reimbursement acknowledgment is a single page:
\* the last page with a title phrase that also carries an acknowledgment
\* phrase, or, when no title page carries one, the first page with a title
\* phrase; it is null exactly when no page has a title phrase.
C27_UltimaConAcuse ==
    Detectado =>
        IF TitulosReembolso = {} THEN ~Hay("Constancia de politica de reembolso de viajes")
        ELSE LET pagina == IF AcusesReembolso # {} THEN Max(AcusesReembolso)
                           ELSE Min(TitulosReembolso)
             IN  Sec("Constancia de politica de reembolso de viajes") = Rango(pagina + 1, pagina + 1)

C27_Testigo ==
    /\ Detectado
    /\ Cardinality(AcusesReembolso) >= 2
    /\ Max(TitulosReembolso) > Max(AcusesReembolso)
    /\ Ini("Constancia de politica de reembolso de viajes") = Max(AcusesReembolso) + 1

\* C28: the combined internal-regulations acknowledgment is the page after the
\* reimbursement page if that page exists and carries at least 3 validation
\* phrases; otherwise the page after the conduct-code page under the same
\* test; otherwise null.  It is never another page, and the first candidate
\* wins when both pass.
CandidatoTras(nombre) ==
    /\ Hay(nombre)
    /\ Ini(nombre) < Len(documento)
    /\ ValidacionesConstancia(Ini(nombre)) >= 3

C28_ConstanciaPosicional ==
    Detectado =>
        Sec("Constancia de RIT,RISST,HOST.SEXUAL,P.SALARIAL") =
            IF CandidatoTras("Constancia de politica de reembolso de viajes")
            THEN Rango(Ini("Constancia de politica de reembolso de viajes") + 1,
                       Ini("Constancia de politica de reembolso de viajes") + 1)
            ELSE IF CandidatoTras("Codigo de conducta")
            THEN Rango(Ini("Codigo de conducta") + 1, Ini("Codigo de conducta") + 1)
            ELSE None

C28_Testigo ==
    /\ Detectado
    /\ CandidatoTras("Constancia de politica de reembolso de viajes")
    /\ CandidatoTras("Codigo de conducta")
    /\ Ini("Codigo de conducta") # Ini("Constancia de politica de reembolso de viajes")
    /\ Ini("Constancia de RIT,RISST,HOST.SEXUAL,P.SALARIAL") =
           Ini("Constancia de politica de reembolso de viajes") + 1

\* C29 (as claimed): RISST detection picks, among the pages matching at least
\* 2 patterns, the page with the highest match count, and the later page when
\* several share the highest count.
CandidatasRisst == {i \in Indices : CoincidenciasRisst(i) >= 2}
MejoresRisst ==
    {i \in CandidatasRisst : \A j \in CandidatasRisst : CoincidenciasRisst(j) <= CoincidenciasRisst(i)}

C29_EmpateUltima ==
    (Detectado /\ Hay("RISST 2025")) =>
        /\ MejoresRisst # {}
        /\ Sec("RISST 2025") = Rango(Max(MejoresRisst) + 1, Max(MejoresRisst) + 1)

\* C29 (amended): RISST detection picks, among the pages matching at least 2
\* patterns, the page with the highest match count, and the earlier page when
\* several share the highest count.
C29_EmpatePrimera ==
    (Detectado /\ Hay("RISST 2025")) =>
        /\ MejoresRisst # {}
        /\ Sec("RISST 2025") = Rango(Min(MejoresRisst) + 1, Min(MejoresRisst) + 1)

C29_Testigo ==
    /\ Detectado /\ Hay("RISST 2025")
    /\ Cardinality(MejoresRisst) >= 2
    /\ \E i \in CandidatasRisst : i \notin MejoresRisst /\ i < Min(MejoresRisst)
    /\ Ini("RISST 2025") = Min(MejoresRisst) + 1

\* ---------------------------------------------------------------------------
\* The background operations of the two tabs: a click handler disables the
\* buttons, shows the progress bar and starts a QThread; the thread's run()
\* calls the controller and emits process_finished; the slot connected to
\* the signal enables the buttons again and hides the bar.
\* ---------------------------------------------------------------------------

\* how many clicks a tab handles
MaxClics == 3

Tabs == {"contratos", "renovaciones"}

\* the QPushButtons of each tab
BotonesDe(t) ==
    IF t = "contratos" THEN {"normalize_button", "diagnose_button", "process_button"}
    ELSE {"diagnostic_button", "process_button"}

\* the buttons as _setup_ui leaves them: in the contracts tab process_button
\* starts disabled, every other button has Qt's default
botones_iniciales(t) ==
    [b \in BotonesDe(t) |-> ~(t = "contratos" /\ b = "process_button")]

\* what the controller finds on disk: an input folder that passes validation, a
\* loadable diagnostico_rangos.json in it, a folder that can be written to, a
\* logs directory that can be created
Entornos ==
    [carpeta_valida : BOOLEAN, json_diagnostico : BOOLEAN,
     carpeta_escribible : BOOLEAN, logs_escribible : BOOLEAN]

\* normalizar_contratos: the folder validation returns an error dict;
\* obtener_directorio_logs stands outside every try
normalizar_contratos(e) ==
    IF ~e.carpeta_valida THEN "fallido"
    ELSE IF ~e.logs_escribible THEN "excepcion"
    ELSE "exitoso"

\* diagnosticar_contratos: as normalizar_contratos, and the write of the
\* consolidated JSON is inside a try that returns an error dict
diagnosticar_contratos(e) ==
    IF ~e.carpeta_valida THEN "fallido"
    ELSE IF ~e.logs_escribible THEN "excepcion"
    ELSE IF ~e.carpeta_escribible THEN "fallido"
    ELSE "exitoso"

\* diagnosticar_renovaciones: the folder validation returns an error dict, the
\* loop catches per file, generar_json_consolidado stands outside every try
\* (SectionDetector() is taken to construct: the renewal detector is not in src/)
diagnosticar_renovaciones(e) ==
    IF ~e.carpeta_valida THEN "fallido"
    ELSE IF ~e.carpeta_escribible THEN "excepcion"
    ELSE "exitoso"

\* procesar_renovaciones: a missing or unreadable JSON returns an error dict;
\* os.makedirs(carpeta_salida) and obtener_directorio_logs stand outside every try
procesar_renovaciones(e) ==
    IF ~e.carpeta_valida \/ ~e.json_diagnostico THEN "fallido"
    ELSE IF ~e.carpeta_escribible THEN "excepcion"
    ELSE IF ~e.logs_escribible THEN "excepcion"
    ELSE "exitoso"

\* the controller call of each thread class
llamar_controller(t, op, e) ==
    IF t = "contratos" THEN
        IF op = "normalizar" THEN normalizar_contratos(e) ELSE diagnosticar_contratos(e)
    ELSE
        IF op = "diagnosticar" THEN diagnosticar_renovaciones(e) ELSE procesar_renovaciones(e)

\* NormalizeThread.run, DiagnosticThread.run, ProcessThread.run: the result of
\* the controller is emitted; an exception of the controller leaves run()
\* before process_finished.emit
run(t, op, e) == llamar_controller(t, op, e)

\* the click handlers from the disabling of the buttons to thread.start()
iniciar_hilo(op, e) ==
    /\ botones' = [b \in DOMAIN botones |-> FALSE]
    /\ barra_visible' = TRUE
    /\ hilo' = "corriendo"
    /\ operacion' = op
    /\ resultado_hilo' = "ninguno"
    /\ entorno' = <<e>>

InitTab ==
    /\ tab \in Tabs
    /\ botones = botones_iniciales(tab)
    /\ barra_visible = FALSE
    /\ hilo = "ninguno"
    /\ operacion = "ninguna"
    /\ resultado_hilo = "ninguno"
    /\ entorno = <<>>
    /\ clics = 0
    /\ DetInactivo /\ DiagInactivo /\ RtInactivo /\ ProcInactivo

\* TabContratos._on_normalize_clicked: nothing happens without a folder
ClicNormalizar ==
    /\ tab = "contratos"
    /\ botones["normalize_button"]
    /\ clics < MaxClics
    /\ clics' = clics + 1
    /\ \E carpeta_elegida \in BOOLEAN, e \in Entornos :
        IF carpeta_elegida THEN iniciar_hilo("normalizar", e)
        ELSE UNCHANGED <<botones, barra_visible, hilo, operacion, resultado_hilo, entorno>>
    /\ UNCHANGED <<tab, detVars, diagVars, rtVars, procVars>>

\* TabContratos._on_diagnose_clicked, TabRenovaciones._on_diagnostic_clicked
ClicDiagnosticar ==
    /\ botones[IF tab = "contratos" THEN "diagnose_button" ELSE "diagnostic_button"]
    /\ clics < MaxClics
    /\ clics' = clics + 1
    /\ \E carpeta_elegida \in BOOLEAN, e \in Entornos :
        IF carpeta_elegida THEN iniciar_hilo("diagnosticar", e)
        ELSE UNCHANGED <<botones, barra_visible, hilo, operacion, resultado_hilo, entorno>>
    /\ UNCHANGED <<tab, detVars, diagVars, rtVars, procVars>>

\* TabRenovaciones._on_process_clicked starts a ProcessThread;
\* TabContratos._on_process_clicked only writes a line to the log
ClicProcesar ==
    /\ botones["process_button"]
    /\ clics < MaxClics
    /\ clics' = clics + 1
    /\ \E carpeta_elegida \in BOOLEAN, e \in Entornos :
        IF tab = "renovaciones" /\ carpeta_elegida THEN iniciar_hilo("procesar", e)
        ELSE UNCHANGED <<botones, barra_visible, hilo, operacion, resultado_hilo, entorno>>
    /\ UNCHANGED <<tab, detVars, diagVars, rtVars, procVars>>

\* the thread's run(): the controller returns a dict, which is emitted, or
\* raises, and the thread ends without a signal
Ejecutar ==
    /\ hilo = "corriendo"
    /\ LET r == run(tab, operacion, entorno[1])
       IN  IF r = "excepcion"
           THEN hilo' = "excepcion" /\ UNCHANGED resultado_hilo
           ELSE hilo' = "emitido" /\ resultado_hilo' = r
    /\ UNCHANGED <<tab, botones, barra_visible, operacion, entorno, clics>>
    /\ UNCHANGED <<detVars, diagVars, rtVars, procVars>>

\* the buttons after the slot of process_finished: _on_normalize_finished
\* leaves process_button as it is, _on_diagnose_finished enables it on
\* success, the renewal slots enable both buttons
botones_al_terminar(t, op, r, antes) ==
    [b \in DOMAIN antes |->
        IF t = "contratos" /\ b = "process_button"
        THEN IF op = "diagnosticar" /\ r = "exitoso" THEN TRUE ELSE antes[b]
        ELSE TRUE]

\* _on_normalize_finished, _on_diagnose_finished, _on_diagnostic_finished,
\* _on_process_finished
AlTerminar ==
    /\ hilo = "emitido"
    /\ botones' = botones_al_terminar(tab, operacion, resultado_hilo, botones)
    /\ barra_visible' = FALSE
    /\ hilo' = "ninguno"
    /\ UNCHANGED <<tab, operacion, resultado_hilo, entorno, clics>>
    /\ UNCHANGED <<detVars, diagVars, rtVars, procVars>>

NextTab == ClicNormalizar \/ ClicDiagnosticar \/ ClicProcesar \/ Ejecutar \/ AlTerminar

SpecTab == InitTab /\ [][NextTab]_vars

\* a started thread runs, and the event loop delivers an emitted signal
SpecTabJusto == SpecTab /\ WF_vars(Ejecutar) /\ WF_vars(AlTerminar)

\* the tab is back in use: no thread, bar hidden, some button enabled
TabDisponible ==
    /\ hilo = "ninguno"
    /\ ~barra_visible
    /\ \E b \in DOMAIN botones : botones[b]

\* C30: every background operation started from a tab eventually emits
\* process_finished, after which the tab's buttons are enabled again and the
\* progress bar is hidden, also when the controller hits an error
C30_SiempreTermina == (hilo = "corriendo") ~> TabDisponible

====
